---------------------------- MODULE Spec2Model ----------------------------
(***************************************************************************)
(* Quantum Particle Lab: the gesture detector (GestureDetector), the hand  *)
(* tracker (HandTracker), the render loop (QuantumParticleLab.animate) and *)
(* the particle engine (ParticleSystem, Physics).                          *)
(*                                                                         *)
(* Numbers.  Landmark coordinates are integers in units of 0.01 of the     *)
(* normalized image space; every comparison of distances and angles the    *)
(* code makes is evaluated exactly on squared quantities.  Confidences are *)
(* in hundredths.  Particle positions, velocities and forces are integer   *)
(* vectors in units of 0.01, times are in milliseconds and colour channels *)
(* in units of 1/255; a real result that is not on the grid (the rescaling *)
(* of limitSpeed, the 0.95 of applyFriction, a normalised direction) is    *)
(* truncated toward zero, component by component.                          *)
(***************************************************************************)
EXTENDS Integers, Sequences, FiniteSets, TLC

VARIABLES
    \* GestureDetector
    lastGesture,          \* this.lastGesture
    gestureStableCount,   \* this.gestureStableCount
    \* the latest detect call, as its caller sees it
    detectResult,         \* the object detect returned
    callKind,             \* "none" | "valid" | "invalid" | "nohand" | "reset"
    callFrame,            \* the landmarks of the latest detect call
    prevLast,             \* lastGesture before the latest operation
    prevCount,            \* gestureStableCount before the latest operation
    \* the sequence of detect calls so far
    lastRaw,              \* raw classification of the latest classified call
    rawRun,               \* classified calls in a row that gave lastRaw
    altRun,               \* classified calls in a row that each differed from the one before
    freshRun,             \* calls since construction / reset, all with one frame; -1 once broken
    gapLen,               \* no-hand results and rejected frames since the latest classified call
    gapBefore,            \* gapLen as it was when the latest classified call was made
    lastEmit,             \* type returned by the latest classified call
    emitBeforeGap,        \* type returned by the classified call before the gap, when
                          \* the latest classified call followed a gap ("NONE" otherwise)
    inputFrame,           \* the frame a classification run feeds (SpecClassify)
    \* a detector constructed when the latest reset was made (at construction
    \* before the first one) and given every detect call made since
    twinLast,             \* its lastGesture
    twinCount,            \* its gestureStableCount
    twinResult,           \* what its latest detect call returned
    sinceReset,           \* whether reset has been called
    \* HandTracker
    currentGesture,       \* this.currentGesture
    handPosition,         \* this.handPosition
    landmarks,            \* this.landmarks
    detectCalled,         \* whether the latest handleResults called detect
    \* ParticleSystem
    positions,            \* particles.geometry.attributes.position, one vector per particle
    velocities,           \* this.velocities
    originalPositions,    \* this.originalPositions
    colors,               \* particles.geometry.attributes.customColor
    \* GestureController and its FreeMode
    forceFieldMarker,     \* FreeMode.forceFieldMarker: visible, position, colour, scale
    controllerLastGesture, \* GestureController.lastGesture
    currentMode,          \* GestureController.currentMode: the name of its class
    controllerInits,      \* calls of currentMode.init the controller has made
    controllerForwards,   \* calls of currentMode.update the controller has made
    forwarded,            \* handPosition and gesture of the latest of them
    \* the operations on the particle system so far
    opCount,              \* operations since construction
    lastOp,               \* the latest operation
    seqLen,               \* applyForce calls since the velocities were last zero
                          \* with nothing else in between; -1 once broken
    cumForce,             \* per particle, the sum of the forces of those calls
    clampedPrior,         \* per particle, whether a call of the sequence before the
                          \* latest one reduced the speed
    everClamped,          \* per particle, whether any call of the sequence did
    prevVelocities,       \* the velocities before the latest operation
    prevPositions,        \* the positions before the latest operation
    lastDelta,            \* deltaTime of the latest update call
    prevColors,           \* the colours before the latest operation
    lastForces,           \* what the force function of the latest operation
                          \* returned for each particle; null when it applied none
    \* AtomMode and GalaxyMode, as a client of the particle system holds them
    atomMode,             \* nucleus, nucleusPosition, particleOrbits
    galaxyMode,           \* galaxyCore, corePosition, rotationSpeed, particleDistances
    \* QuantumParticleLab
    isRunning,            \* this.isRunning
    lastTime,             \* this.lastTime
    ticks,                \* animate calls that ran a frame
    pendingFrames,        \* requestAnimationFrame callbacks not yet called
    appPhase,             \* "waiting": init() is in its wait, everything constructed;
                          \* "started": init() has set isRunning and called animate(0)
    appDisposed,          \* whether QuantumParticleLab.dispose() has been called
    handLight,            \* sceneManager.handLight.position
    lightHand,            \* the handPosition handleHandResults last moved the light for
    trackers,             \* every HandTracker constructed so far, the latest of them
                          \* this.handTracker: where its initCamera() is, its camera,
                          \* its hands, and what it did after its dispose()
    \* the latest frame, as animate ran it
    tickStart,            \* positions and velocities when the frame began
    tickDelta,            \* clampedDelta
    tickHand,             \* handData
    tickDraw,             \* the random draws of the frame
    rendered,             \* what sceneManager.render() was given to draw
    detectsPending,       \* detect calls since the latest GestureController.update
    detectsBeforeUpdate,  \* detect calls between the latest two updates
    \* a force function called on its own
    probe,                \* the arguments of the call
    probeForce            \* what it returned; null before the call

detectorVars == <<lastGesture, gestureStableCount>>
callVars == <<callKind, callFrame, prevLast, prevCount>>
historyVars ==
    <<lastRaw, rawRun, altRun, freshRun, gapLen, gapBefore, lastEmit,
      emitBeforeGap, inputFrame>>
twinVars == <<twinLast, twinCount, twinResult, sinceReset>>
recordVars == <<callVars, historyVars, twinVars>>
trackerVars == <<currentGesture, handPosition, landmarks, detectCalled>>
sensingVars == <<detectorVars, detectResult, trackerVars>>

particleVars == <<positions, velocities, originalPositions, colors>>
controllerVars == <<currentMode, controllerInits, controllerForwards, forwarded>>
modeVars == <<forceFieldMarker, controllerLastGesture, controllerVars>>
opVars ==
    <<opCount, lastOp, seqLen, cumForce, clampedPrior, everClamped, prevVelocities,
      prevPositions, lastDelta, prevColors, lastForces>>
modesVars == <<atomMode, galaxyMode>>
lifeVars == <<appPhase, appDisposed, handLight, lightHand, trackers>>
appVars == <<isRunning, lastTime, ticks, pendingFrames, lifeVars>>
tickVars ==
    <<tickStart, tickDelta, tickHand, tickDraw, rendered, detectsPending,
      detectsBeforeUpdate>>
engineVars == <<particleVars, modeVars, opVars, modesVars>>
probeVars == <<probe, probeForce>>
loopVars == <<appVars, tickVars, probeVars>>

vars == <<sensingVars, recordVars, engineVars, loopVars>>

\* JavaScript null: the value with nothing in it
null == << >>

Min(a, b) == IF a < b THEN a ELSE b
Max(a, b) == IF a > b THEN a ELSE b

----------------------------------------------------------------------------
(* GestureDetector: thresholds (constructor)                               *)

\* 0.08, in units of 0.01
PINCH_THRESHOLD == 8
\* EXTENDED_ANGLE_THRESHOLD (165 degrees) and CURL_ANGLE_THRESHOLD (150 degrees)
\* appear below as the exact cosine tests of CurlAngleAboveExtended and
\* CurlAngleBelowCurl.
\* 0.35, in hundredths
PEACE_V_SPREAD_RATIO == 35
\* 0.025, in units of 0.0001 (so that it is an integer)
PEACE_V_MIN_SPREAD == 250
\* 0.15, in units of 0.01
FULL_OPEN_SPREAD_THRESHOLD == 15
STABLE_FRAMES == 2

GestureTypes == {"NONE", "PINCH", "PEACE", "FULL_OPEN"}

Pt(px, py, pz) == [x |-> px, y |-> py, z |-> pz]

\* calculateDistance, squared: the code compares distances only
DistSq(p1, p2) ==
    LET dx == p1.x - p2.x
        dy == p1.y - p2.y
        dz == p1.z - p2.z
    IN  dx * dx + dy * dy + dz * dz

\* getFingerCurlAngle(landmarks, tipIndex) > 165 and < 150, decided exactly.
\* With c = dot / (mag1 * mag2) and M = mag1^2 * mag2^2:
\*   angle > 165  <=>  c < cos 165  <=>  dot < 0 /\ 4 dot^2 > (2 + sqrt 3) M
\*   angle < 150  <=>  c > cos 150  <=>  dot >= 0 \/ 4 dot^2 < 3 M
\* and a zero-length vector gives 180.
CurlDot(lm, tipIndex) ==
    LET mcp == lm[tipIndex - 3]
        pip == lm[tipIndex - 2]
        dip == lm[tipIndex - 1]
    IN  (mcp.x - pip.x) * (dip.x - pip.x) + (mcp.y - pip.y) * (dip.y - pip.y)
          + (mcp.z - pip.z) * (dip.z - pip.z)

CurlMagSq(lm, tipIndex) ==
    DistSq(lm[tipIndex - 3], lm[tipIndex - 2]) * DistSq(lm[tipIndex - 1], lm[tipIndex - 2])

\* a getFingerCurlAngle without the early return for a zero-length vector
CurlNeverDegenerate(lm, tipIndex) == FALSE

CurlDegenerate(lm, tipIndex) ==
    \/ DistSq(lm[tipIndex - 3], lm[tipIndex - 2]) = 0
    \/ DistSq(lm[tipIndex - 1], lm[tipIndex - 2]) = 0

CurlAngleAboveExtended(lm, tipIndex) ==
    \/ CurlDegenerate(lm, tipIndex)
    \/ LET d == CurlDot(lm, tipIndex)
           m == CurlMagSq(lm, tipIndex)
           t == 4 * d * d - 2 * m
       IN  d < 0 /\ t > 0 /\ t * t > 3 * m * m

CurlAngleBelowCurl(lm, tipIndex) ==
    /\ ~CurlDegenerate(lm, tipIndex)
    /\ LET d == CurlDot(lm, tipIndex)
           m == CurlMagSq(lm, tipIndex)
       IN  d >= 0 \/ 4 * d * d < 3 * m

\* tipToMcp > dipToMcp * 1.1  <=>  100 tipToMcp^2 > 121 dipToMcp^2
isFingerExtended(lm, tipIndex) ==
    \/ 100 * DistSq(lm[tipIndex], lm[tipIndex - 3])
         > 121 * DistSq(lm[tipIndex - 1], lm[tipIndex - 3])
    \/ CurlAngleAboveExtended(lm, tipIndex)

\* tipToMcp < dipToMcp * 1.05  <=>  400 tipToMcp^2 < 441 dipToMcp^2
isFingerCurled(lm, tipIndex) ==
    \/ 400 * DistSq(lm[tipIndex], lm[tipIndex - 3])
         < 441 * DistSq(lm[tipIndex - 1], lm[tipIndex - 3])
    \/ CurlAngleBelowCurl(lm, tipIndex)

\* tipToWrist > mcpToWrist * 1.3  <=>  100 tipToWrist^2 > 169 mcpToWrist^2
isThumbExtended(lm) ==
    100 * DistSq(lm[4], lm[0]) > 169 * DistSq(lm[2], lm[0])

\* getPalmWidth, squared
PalmWidthSq(lm) == DistSq(lm[5], lm[17])

isPinch(lm) ==
    /\ isThumbExtended(lm)
    /\ isFingerExtended(lm, 8)
    /\ DistSq(lm[4], lm[8]) < PINCH_THRESHOLD * PINCH_THRESHOLD

\* fingerGap > max(PEACE_V_MIN_SPREAD, palmWidth * PEACE_V_SPREAD_RATIO)
isPeaceSign(lm) ==
    /\ isFingerExtended(lm, 8)
    /\ isFingerExtended(lm, 12)
    /\ isFingerCurled(lm, 16)
    /\ isFingerCurled(lm, 20)
    /\ 10000 * DistSq(lm[8], lm[12]) > PEACE_V_MIN_SPREAD * PEACE_V_MIN_SPREAD
    /\ 10000 * DistSq(lm[8], lm[12])
         > PEACE_V_SPREAD_RATIO * PEACE_V_SPREAD_RATIO * PalmWidthSq(lm)

isFullHandOpen(lm) ==
    /\ \A t \in {8, 12, 16, 20} : isFingerExtended(lm, t)
    /\ isThumbExtended(lm)
    /\ PalmWidthSq(lm) > FULL_OPEN_SPREAD_THRESHOLD * FULL_OPEN_SPREAD_THRESHOLD

\* the priority chain of detect, with PEACE tried before PINCH
RawGesturePeaceFirst(lm) ==
    IF isPeaceSign(lm) THEN [type |-> "PEACE", confidence |-> 85]
    ELSE IF isPinch(lm) THEN [type |-> "PINCH", confidence |-> 90]
    ELSE IF isFullHandOpen(lm) THEN [type |-> "FULL_OPEN", confidence |-> 90]
    ELSE [type |-> "NONE", confidence |-> 0]

\* a classification that names the open hand THUMB_UP
RawGestureThumbUp(lm) ==
    IF isPinch(lm) THEN [type |-> "PINCH", confidence |-> 90]
    ELSE IF isPeaceSign(lm) THEN [type |-> "PEACE", confidence |-> 85]
    ELSE IF isFullHandOpen(lm) THEN [type |-> "THUMB_UP", confidence |-> 90]
    ELSE [type |-> "NONE", confidence |-> 0]

\* detect, lines 35-75: gesture and confidence before the stability check
RawGesture(lm) ==
    IF isPinch(lm) THEN [type |-> "PINCH", confidence |-> 90]
    ELSE IF isPeaceSign(lm) THEN [type |-> "PEACE", confidence |-> 85]
    ELSE IF isFullHandOpen(lm) THEN [type |-> "FULL_OPEN", confidence |-> 90]
    ELSE [type |-> "NONE", confidence |-> 0]

\* the stability check that keeps counting when the gesture changes
StabilityStepNoReset(gesture, last, count) ==
    [last |-> gesture, count |-> count + 1]

\* detect, lines 78-83
StabilityStep(gesture, last, count) ==
    IF gesture = last
    THEN [last |-> last, count |-> count + 1]
    ELSE [last |-> gesture, count |-> 0]

\* the threshold one frame earlier
IsStableOneEarlier(count) == count >= STABLE_FRAMES - 1

\* detect, line 86
IsStable(count) == count >= STABLE_FRAMES

\* !landmarks || landmarks.length !== 21
InvalidLandmarks(lm) == lm = null \/ Cardinality(DOMAIN lm) # 21

NoneResult == [type |-> "NONE", confidence |-> 0]

\* detect that runs a rejected frame through the stability check as NONE
DetectOutcomeInvalidAsNone(lm, last, count) ==
    LET raw == IF InvalidLandmarks(lm) THEN NoneResult ELSE RawGesture(lm)
        st == StabilityStep(raw.type, last, count)
    IN  [result |-> IF IsStable(st.count) /\ ~InvalidLandmarks(lm) THEN raw ELSE NoneResult,
         last |-> st.last, count |-> st.count]

\* detect(landmarks): what it returns and the debounce state it leaves
DetectOutcome(lm, last, count) ==
    IF InvalidLandmarks(lm)
    THEN [result |-> NoneResult, last |-> last, count |-> count]
    ELSE LET raw == RawGesture(lm)
             st == StabilityStep(raw.type, last, count)
         IN  [result |-> IF IsStable(st.count) THEN raw ELSE NoneResult,
              last |-> st.last, count |-> st.count]

\* getPalmCenter: the mean of wrist, index MCP and pinky MCP
getPalmCenter(lm) ==
    Pt((lm[0].x + lm[5].x + lm[17].x) \div 3,
       (lm[0].y + lm[5].y + lm[17].y) \div 3,
       (lm[0].z + lm[5].z + lm[17].z) \div 3)

----------------------------------------------------------------------------
(* Landmark frames fed to the detector.  A hand is built from a palm, a    *)
(* thumb pose and one shape per finger; the wrist is at (50, 90).          *)

Add(p, q) == Pt(p.x + q.x, p.y + q.y, p.z + q.z)

\* the three joints of a finger after its MCP, as offsets from the MCP
FingerShape(s) ==
    CASE s = "straight" -> [pip |-> Pt(0, -10, 0), dip |-> Pt(0, -17, 0), tip |-> Pt(0, -23, 0)]
      [] s = "spread"   -> [pip |-> Pt(-3, -10, 0), dip |-> Pt(-5, -17, 0), tip |-> Pt(-7, -23, 0)]
      [] s = "bent"     -> [pip |-> Pt(0, -10, 0), dip |-> Pt(3, -5, 2), tip |-> Pt(3, -1, 2)]
      [] s = "hook"     -> [pip |-> Pt(0, -10, 0), dip |-> Pt(5, -15, 0), tip |-> Pt(10, -20, 0)]
      [] s = "half"     -> [pip |-> Pt(0, -10, 0), dip |-> Pt(3, -17, 0), tip |-> Pt(7, -17, 0)]
      [] s = "point"    -> [pip |-> Pt(0, 0, 0), dip |-> Pt(0, 0, 0), tip |-> Pt(0, 0, 0)]

Shapes == {"straight", "spread", "bent", "hook", "half", "point"}
Palms == {"wide", "narrow"}
Thumbs == {"touch", "out", "folded"}

\* the MCP joints of index, middle, ring and pinky
PalmMcp(palm) ==
    IF palm = "wide"
    THEN <<Pt(42, 60, 0), Pt(48, 58, 0), Pt(54, 59, 0), Pt(60, 62, 0)>>
    ELSE <<Pt(45, 60, 0), Pt(48, 58, 0), Pt(52, 59, 0), Pt(55, 61, 0)>>

\* the 21 landmarks, indexed 0..20 as MediaPipe numbers them
MakeHand(palm, thumb, shapes) ==
    LET mcp == PalmMcp(palm)
        joint(f, j) ==
            CASE j = 0 -> mcp[f]
              [] j = 1 -> Add(mcp[f], FingerShape(shapes[f]).pip)
              [] j = 2 -> Add(mcp[f], FingerShape(shapes[f]).dip)
              [] j = 3 -> Add(mcp[f], FingerShape(shapes[f]).tip)
        indexTip == joint(1, 3)
        thumbTip ==
            CASE thumb = "touch"  -> Add(indexTip, Pt(-2, 3, 0))
              [] thumb = "out"    -> Pt(30, 65, 0)
              [] thumb = "folded" -> Pt(48, 80, 0)
    IN  [i \in 0..20 |->
            CASE i = 0 -> Pt(50, 90, 0)
              [] i = 1 -> Pt(44, 84, 0)
              [] i = 2 -> Pt(40, 78, 0)
              [] i = 3 -> Pt(36, 72, 0)
              [] i = 4 -> thumbTip
              [] OTHER -> joint((i - 1) \div 4, (i - 1) % 4)]

AllFrames ==
    { MakeHand(p, t, sh) : p \in Palms, t \in Thumbs, sh \in [1..4 -> Shapes] }

\* the frames the detector and the tracker are driven with
SampleFrames ==
    { MakeHand("wide", "touch", <<"straight", "bent", "bent", "bent">>),
      MakeHand("narrow", "touch", <<"straight", "straight", "bent", "bent">>),
      MakeHand("narrow", "folded", <<"straight", "straight", "bent", "bent">>),
      MakeHand("wide", "out", <<"spread", "straight", "hook", "hook">>),
      MakeHand("wide", "out", <<"straight", "straight", "straight", "straight">>),
      MakeHand("wide", "folded", <<"bent", "bent", "bent", "bent">>),
      MakeHand("narrow", "out", <<"half", "half", "half", "half">>) }

\* a frame with a landmark missing
ShortFrame ==
    [i \in 0..19 |-> MakeHand("wide", "touch", <<"straight", "bent", "bent", "bent">>)[i]]

InvalidFrames == {null, ShortFrame}

----------------------------------------------------------------------------
(* Vectors (THREE.Vector3) on the 0.01 grid                                *)

VZero == Pt(0, 0, 0)
Sub(p, q) == Pt(p.x - q.x, p.y - q.y, p.z - q.z)
LenSq(v) == v.x * v.x + v.y * v.y + v.z * v.z

RECURSIVE SqrtSearch(_, _, _)
SqrtSearch(n, lo, hi) ==
    IF lo >= hi THEN lo
    ELSE LET mid == (lo + hi + 1) \div 2
         IN  IF mid * mid <= n THEN SqrtSearch(n, mid, hi)
             ELSE SqrtSearch(n, lo, mid - 1)

\* the square root, rounded down and rounded up
ISqrt(n) == SqrtSearch(n, 0, 46340)
CeilSqrt(n) == LET r == ISqrt(n) IN IF r * r = n THEN r ELSE r + 1

\* a / b truncated toward zero, b > 0
TruncDiv(a, b) == IF a >= 0 THEN a \div b ELSE -((-a) \div b)

\* v * num / den
ScaleDiv(v, num, den) ==
    Pt(TruncDiv(v.x * num, den), TruncDiv(v.y * num, den), TruncDiv(v.z * num, den))

----------------------------------------------------------------------------
(* Physics                                                                 *)

\* the speed limit applyForce passes to limitSpeed: 5.0
MAX_SPEED == 500
\* the friction update passes to applyFriction: 0.95, in hundredths
FRICTION == 95
\* the factor of update's displacement: 2.0
TIME_SCALE == 2
\* FreeMode's boundaryRadius: 30
BOUNDARY_RADIUS == 3000
\* the largest deltaTime animate passes on: 0.1 s
MAX_DELTA == 100

\* a speed limit applied to each axis on its own
limitSpeedPerAxis(velocity, maxSpeed) ==
    Pt(Max(-maxSpeed, Min(velocity.x, maxSpeed)),
       Max(-maxSpeed, Min(velocity.y, maxSpeed)),
       Max(-maxSpeed, Min(velocity.z, maxSpeed)))

\* limitSpeed: a velocity longer than maxSpeed is normalised and multiplied by
\* maxSpeed; the length it is divided by is rounded up to the grid, so that
\* truncation never lengthens the result
limitSpeed(velocity, maxSpeed) ==
    IF LenSq(velocity) > maxSpeed * maxSpeed
    THEN ScaleDiv(velocity, maxSpeed, CeilSqrt(LenSq(velocity)))
    ELSE velocity

\* applyFriction: velocity.multiplyScalar(friction)
applyFriction(velocity, friction) == ScaleDiv(velocity, friction, 100)

\* an attraction that points away from the target
attractionForceAway(position, target, strength) ==
    LET direction == Sub(position, target)
        dsq == LenSq(direction)
        forceMagnitude == (strength * 1000000) \div (dsq + 1000)
    IN  IF dsq < 100 THEN VZero
        ELSE ScaleDiv(direction, forceMagnitude, ISqrt(dsq))

\* attractionForce: zero closer than 0.1, else strength / (distance^2 + 0.1)
\* along the direction to the target
attractionForce(position, target, strength) ==
    LET direction == Sub(target, position)
        dsq == LenSq(direction)
        distance == ISqrt(dsq)
        forceMagnitude == (strength * 1000000) \div (dsq + 1000)
    IN  IF dsq < 100 THEN VZero
        ELSE ScaleDiv(direction, forceMagnitude, distance)

\* repulsionForce: closer than 0.1 the three draws of Math.random() - 0.5
\* (rnd, in hundredths) times strength * 10, else strength / (distance + 0.1)
\* along the direction away from the target
repulsionForce(position, target, strength, rnd) ==
    LET direction == Sub(position, target)
        dsq == LenSq(direction)
        distance == ISqrt(dsq)
        forceMagnitude == (strength * 10000) \div (distance + 10)
    IN  IF dsq < 100 THEN Pt(rnd.x * strength * 10, rnd.y * strength * 10,
                             rnd.z * strength * 10)
        ELSE ScaleDiv(direction, forceMagnitude, distance)

\* orbitalForce: zero closer than 0.1 to the center, else speed (in
\* hundredths) along the normalised tangent (-y, x, 0); a tangent of length
\* zero stays zero when normalised
orbitalForce(position, center, speed) ==
    LET toCenter == Sub(center, position)
        flat == Pt(-toCenter.y, toCenter.x, 0)
        flatLen == ISqrt(LenSq(flat))
    IN  IF LenSq(toCenter) < 100 \/ flatLen = 0 THEN VZero
        ELSE ScaleDiv(flat, speed, flatLen)

\* screenToWorld: x and y in hundredths of the normalized image, z a depth
screenToWorld(x, y, z) == Pt((x - 50) * 2 * 20, -(y - 50) * 2 * 15, z)

----------------------------------------------------------------------------
(* FreeMode: the force and the colour of one particle                      *)

\* the PEACE vortex: radial 1.5 toward the hand plus 5 / sqrt(distance) along
\* the tangent (-y, x, 0), farther than 0.1 from the hand only; a tangent of
\* length zero stays zero when normalised
VortexForce(position, handWorldPos) ==
    LET toCenter == Sub(handWorldPos, position)
        dsq == LenSq(toCenter)
        dist == ISqrt(dsq)
        radial == ScaleDiv(toCenter, 150, dist)
        flat == Pt(-toCenter.y, toCenter.x, 0)
        flatLen == ISqrt(LenSq(flat))
        tangent == IF flatLen = 0 THEN VZero
                   ELSE ScaleDiv(flat, 50000 \div ISqrt(100 * dist), flatLen)
    IN  IF dsq > 100 THEN Add(radial, tangent) ELSE VZero

\* a force function that pulls on FULL_OPEN and pushes on PINCH
FreeForceSwapped(position, handWorldPos, gesture, drift, rnd) ==
    LET overlay ==
            IF handWorldPos = null THEN VZero
            ELSE CASE gesture.type = "FULL_OPEN" ->
                          attractionForce(position, handWorldPos, 15)
                   [] gesture.type = "PINCH" ->
                          repulsionForce(position, handWorldPos, 10, rnd)
                   [] gesture.type = "PEACE" -> VortexForce(position, handWorldPos)
                   [] OTHER -> VZero
        distFromCenter == ISqrt(LenSq(position))
        boundaryForce ==
            IF LenSq(position) > BOUNDARY_RADIUS * BOUNDARY_RADIUS
            THEN ScaleDiv(position, -(((distFromCenter - BOUNDARY_RADIUS) * 5) \div 100),
                          distFromCenter)
            ELSE VZero
    IN  Add(Add(Add(overlay, boundaryForce), ScaleDiv(position, -5, 1000)), drift)

\* a force function whose centring term points away from the origin
FreeForceOutward(position, handWorldPos, gesture, drift, rnd) ==
    LET distFromCenter == ISqrt(LenSq(position))
        boundaryForce ==
            IF LenSq(position) > BOUNDARY_RADIUS * BOUNDARY_RADIUS
            THEN ScaleDiv(position, -(((distFromCenter - BOUNDARY_RADIUS) * 5) \div 100),
                          distFromCenter)
            ELSE VZero
    IN  Add(Add(boundaryForce, ScaleDiv(position, 5, 1000)), drift)

\* the force function FreeMode.update hands to applyForce; drift is the draw
\* of randomDrift(0.08), rnd the draw repulsionForce might make
FreeForce(position, handWorldPos, gesture, drift, rnd) ==
    LET overlay ==
            IF handWorldPos = null THEN VZero
            ELSE CASE gesture.type = "FULL_OPEN" ->
                          repulsionForce(position, handWorldPos, 10, rnd)
                   [] gesture.type = "PINCH" ->
                          attractionForce(position, handWorldPos, 15)
                   [] gesture.type = "PEACE" -> VortexForce(position, handWorldPos)
                   [] OTHER -> VZero
        distFromCenter == ISqrt(LenSq(position))
        boundaryForce ==
            IF LenSq(position) > BOUNDARY_RADIUS * BOUNDARY_RADIUS
            THEN ScaleDiv(position, -(((distFromCenter - BOUNDARY_RADIUS) * 5) \div 100),
                          distFromCenter)
            ELSE VZero
        centerForce == ScaleDiv(position, -5, 1000)
    IN  Add(Add(Add(overlay, boundaryForce), centerForce), drift)

Rgb(cr, cg, cb) == [r |-> cr, g |-> cg, b |-> cb]

\* the colour function FreeMode.update hands to updateColors: 0x00ff88, moved
\* toward 0xff0088 by min(speed / 2, 1) above speed 0.5, brightened within 3
\* of the hand
FreeColor(position, velocity, handWorldPos) ==
    LET speed == ISqrt(LenSq(velocity))
        red == IF LenSq(velocity) > 2500 THEN (255 * Min(speed, 200)) \div 200 ELSE 0
        base == Rgb(red, 255 - red, 136)
        dsq == IF handWorldPos = null THEN 0 ELSE LenSq(Sub(position, handWorldPos))
        gain == 600 - ISqrt(dsq)
    IN  IF handWorldPos # null /\ dsq < 90000
        THEN Rgb((base.r * gain) \div 300, (base.g * gain) \div 300,
                 (base.b * gain) \div 300)
        ELSE base

----------------------------------------------------------------------------
(* AtomMode and GalaxyMode: the force and the colour of one particle       *)

\* AtomMode.orbitalLevels: 2, 4, 6
orbitalLevels == <<200, 400, 600>>

\* randomDrift(strength), strength in hundredths: the draws that give drift
\* at strength 0.08, multiplied by strength instead
DriftOf(drift, strength) == ScaleDiv(drift, strength, 8)

\* a force function that boosts the orbit on PEACE without looking for a hand
AtomForceBoostWithoutHand(position, orbitRadius, nucleusPosition, handWorldPos, gesture, drift, rnd) ==
    LET outward == Sub(position, nucleusPosition)
        dist == ISqrt(LenSq(outward))
        spring == IF dist = 0 THEN VZero
                  ELSE ScaleDiv(outward, TruncDiv(-(dist - orbitRadius) * 45, 100), dist)
        boost == IF gesture.type = "PEACE"
                 THEN orbitalForce(position, nucleusPosition, 150) ELSE VZero
    IN  Add(Add(Add(spring, orbitalForce(position, nucleusPosition, 80)), boost),
            DriftOf(drift, 5))

\* the force function AtomMode.update hands to applyForce: a spring of 0.45
\* toward the particle's orbit radius around the nucleus, orbitalForce 0.8,
\* the overlay of the gesture when there is a hand, randomDrift(0.05)
AtomForce(position, orbitRadius, nucleusPosition, handWorldPos, gesture, drift, rnd) ==
    LET outward == Sub(position, nucleusPosition)
        dist == ISqrt(LenSq(outward))
        radialError == dist - orbitRadius
        spring == IF dist = 0 THEN VZero
                  ELSE ScaleDiv(outward, TruncDiv(-radialError * 45, 100), dist)
        overlay ==
            IF handWorldPos = null THEN VZero
            ELSE CASE gesture.type = "THUMB_UP" ->
                          repulsionForce(position, handWorldPos, 8, rnd)
                   [] gesture.type = "PINCH" ->
                          attractionForce(position, handWorldPos, 10)
                   [] gesture.type = "PEACE" ->
                          orbitalForce(position, nucleusPosition, 150)
                   [] OTHER -> VZero
    IN  Add(Add(Add(spring, orbitalForce(position, nucleusPosition, 80)), overlay),
            DriftOf(drift, 5))

\* the colour function AtomMode.update hands to updateColors: brightness
\* 1 - min(distance / 10, 1) from the nucleus, colour (0.3 b, b, 1)
AtomColor(position, nucleusPosition) ==
    LET distance == ISqrt(LenSq(Sub(position, nucleusPosition)))
        brightness == 1000 - Min(distance, 1000)
    IN  Rgb((255 * 3 * brightness) \div 10000, (255 * brightness) \div 1000, 255)

\* the normalised tangent (-y, x, 0) of GalaxyMode times speed; a tangent of
\* length zero stays zero when normalised
GalaxyTangent(toCenter, speed) ==
    LET flat == Pt(-toCenter.y, toCenter.x, 0)
        flatLen == ISqrt(LenSq(flat))
    IN  IF flatLen = 0 THEN VZero ELSE ScaleDiv(flat, speed, flatLen)

\* a force function whose PEACE overlay brings the tangent to twice the rate
GalaxyForceDoubled(position, targetRadius, corePosition, rotationSpeed, handWorldPos, gesture, drift, rnd) ==
    LET toCenter == Sub(corePosition, position)
        dist == ISqrt(LenSq(toCenter))
        springForce == IF dist = 0 THEN VZero
                       ELSE ScaleDiv(Sub(position, corePosition),
                                     TruncDiv(-(dist - targetRadius) * 35, 100), dist)
        flattenForce == Pt(0, 0, TruncDiv(-position.z * 5, 100))
        overlay ==
            IF handWorldPos = null THEN VZero
            ELSE CASE gesture.type = "THUMB_UP" ->
                          repulsionForce(position, handWorldPos, 7, rnd)
                   [] gesture.type = "PINCH" ->
                          attractionForce(position, handWorldPos, 12)
                   [] gesture.type = "PEACE" -> GalaxyTangent(toCenter, rotationSpeed)
                   [] OTHER -> VZero
    IN  Add(Add(Add(Add(springForce, GalaxyTangent(toCenter, rotationSpeed)),
                    flattenForce), overlay), DriftOf(drift, 3))

\* the force function GalaxyMode.update hands to applyForce: a spring of 0.35
\* toward the particle's target radius around the core, the tangent times
\* rotationSpeed, the flattening of z, the overlay of the gesture when there
\* is a hand, randomDrift(0.03)
GalaxyForce(position, targetRadius, corePosition, rotationSpeed, handWorldPos, gesture, drift, rnd) ==
    LET toCenter == Sub(corePosition, position)
        dist == ISqrt(LenSq(toCenter))
        radialError == dist - targetRadius
        springForce == IF dist = 0 THEN VZero
                       ELSE ScaleDiv(Sub(position, corePosition),
                                     TruncDiv(-radialError * 35, 100), dist)
        flattenForce == Pt(0, 0, TruncDiv(-position.z * 5, 100))
        overlay ==
            IF handWorldPos = null THEN VZero
            ELSE CASE gesture.type = "THUMB_UP" ->
                          repulsionForce(position, handWorldPos, 7, rnd)
                   [] gesture.type = "PINCH" ->
                          attractionForce(position, handWorldPos, 12)
                   [] gesture.type = "PEACE" ->
                          GalaxyTangent(toCenter, rotationSpeed * 2)
                   [] OTHER -> VZero
    IN  Add(Add(Add(Add(springForce, GalaxyTangent(toCenter, rotationSpeed)),
                    flattenForce), overlay), DriftOf(drift, 3))

\* lerpColors(0xffaa00, 0x8844ff, t), t = min(distance / 12, 1)
GalaxyBase(distance) ==
    LET t == Min(distance, 1200)
    IN  Rgb(255 + TruncDiv((136 - 255) * t, 1200), 170 + TruncDiv((68 - 170) * t, 1200),
            TruncDiv(255 * t, 1200))

\* the colour function GalaxyMode.update hands to updateColors: the base
\* colour of the distance from the core, times 1 + speed * 0.5
GalaxyColor(position, velocity, corePosition) ==
    LET speed == ISqrt(LenSq(velocity))
        base == GalaxyBase(ISqrt(LenSq(Sub(position, corePosition))))
    IN  Rgb((base.r * (200 + speed)) \div 200, (base.g * (200 + speed)) \div 200,
            (base.b * (200 + speed)) \div 200)

----------------------------------------------------------------------------
(* Bounds                                                                  *)

\* detect is not called again once gestureStableCount has reached MaxCount
MaxCount == 3
\* gapLen stops counting at MaxGap
MaxGap == 2
\* particles of the system (the application builds 800)
NumParticles == 2
\* operations on the particle system in one run
MaxOps == 3
\* frames of the render loop in one run
MaxTicks == 3

RunCap == MaxCount + 2
Particles == 0 .. NumParticles - 1

----------------------------------------------------------------------------
(* ParticleSystem: the buffers as a record, and its methods on it          *)

\* unit vectors, in thousandths: the directions (sin phi cos theta,
\* sin phi sin theta, cos phi) that init, randomize and AtomMode.init draw
UnitDirs ==
    <<Pt(0, -800, 600), Pt(0, -1000, 0), Pt(600, 800, 0), Pt(-600, 0, 800), Pt(1000, 0, 0)>>

\* the radii init and randomize draw with them: Math.random() * 10
SphereRadii == <<500, 600, 500, 800, 0>>

\* a point drawn in the cube that holds the sphere
SpherePointInCube(radius, dir) ==
    Pt(IF dir.x < 0 THEN -radius ELSE radius,
       IF dir.y < 0 THEN -radius ELSE radius,
       IF dir.z < 0 THEN -radius ELSE radius)

\* radius * (sin phi cos theta, sin phi sin theta, cos phi)
SpherePoint(radius, dir) == ScaleDiv(dir, radius, 1000)

\* points as init and randomize draw them
SpherePoints == [n \in 1 .. 5 |-> SpherePoint(SphereRadii[n], UnitDirs[n])]

LayoutIds == {0, 1}
Layout(k) == [i \in Particles |-> SpherePoints[((i + k) % 5) + 1]]

ZeroVelocities == [i \in Particles |-> VZero]

ThePs == [positions |-> positions, velocities |-> velocities, colors |-> colors]

\* the displacement of one update: velocity * deltaTime * 2.0, deltaTime in ms
Displacement(velocity, deltaTime) == ScaleDiv(velocity, deltaTime * TIME_SCALE, 1000)

\* an update that applies the friction before it moves the particles
updateFrictionFirst(ps, deltaTime) ==
    [ps EXCEPT
        !.positions = [i \in Particles |->
            Add(ps.positions[i],
                Displacement(applyFriction(ps.velocities[i], FRICTION), deltaTime))],
        !.velocities = [i \in Particles |-> applyFriction(ps.velocities[i], FRICTION)]]

\* update(deltaTime, time)
update(ps, deltaTime) ==
    [ps EXCEPT
        !.positions = [i \in Particles |->
            Add(ps.positions[i], Displacement(ps.velocities[i], deltaTime))],
        !.velocities = [i \in Particles |-> applyFriction(ps.velocities[i], FRICTION)]]

\* an applyForce that stops a particle whose force function returns null
applyForceNullStops(ps, forces) ==
    [ps EXCEPT
        !.velocities = [i \in Particles |->
            IF forces[i] = null THEN VZero
            ELSE limitSpeed(Add(ps.velocities[i], forces[i]), MAX_SPEED)]]

\* applyForce(forceFunction), forces[i] being forceFunction(position, i)
applyForce(ps, forces) ==
    [ps EXCEPT
        !.velocities = [i \in Particles |->
            IF forces[i] = null THEN ps.velocities[i]
            ELSE limitSpeed(Add(ps.velocities[i], forces[i]), MAX_SPEED)]]

\* updateColors(colorFunction), cols[i] being colorFunction(i)
updateColors(ps, cols) == [ps EXCEPT !.colors = cols]

\* a reset that goes back to where the particles were last placed
resetVelocitiesOnly(ps, original) == [ps EXCEPT !.velocities = ZeroVelocities]

\* reset(), original being this.originalPositions
reset(ps, original) == [ps EXCEPT !.positions = original, !.velocities = ZeroVelocities]

----------------------------------------------------------------------------
(* Random draws and force functions the engine is driven with              *)

RandomDraws == {"calm", "gust"}

\* randomDrift(0.08): each component in [-0.04, 0.04)
Drift(draw, i) ==
    IF draw = "calm" THEN VZero
    ELSE IF i % 2 = 0 THEN Pt(3, -4, 0) ELSE Pt(-4, 2, 3)

\* Math.random() - 0.5, three times: each component in [-0.5, 0.5)
Rnd(draw, i) == IF draw = "calm" THEN Pt(-50, 0, 49) ELSE Pt(10, -20, 30)

ForceFields == {"push", "lift", "brake", "skipOdd"}

\* force functions a client of applyForce passes
ClientForce(f, position, index) ==
    CASE f = "push"    -> Pt(800, 0, 0)
      [] f = "lift"    -> Pt(0, 300, 400)
      [] f = "brake"   -> Pt(-200, 0, 0)
      [] f = "skipOdd" -> IF index % 2 = 1 THEN null ELSE Pt(-position.x, 0, -700)

\* deltaTime values update is called with, in ms
DeltaTimes == {0, 100}

----------------------------------------------------------------------------
(* FreeMode and GestureController                                          *)

HandWorld(hp) == IF hp = null THEN null ELSE screenToWorld(hp.x, hp.y, 0)

\* FreeMode.update: the particle system after applyForce and updateColors
FreeModeUpdate(ps, hp, gesture, draw) ==
    LET forced == applyForce(ps, [i \in Particles |->
                      FreeForce(ps.positions[i], HandWorld(hp), gesture,
                                Drift(draw, i), Rnd(draw, i))])
    IN  updateColors(forced, [i \in Particles |->
            FreeColor(forced.positions[i], forced.velocities[i], HandWorld(hp))])

\* FreeMode.update: the marker (its rotation, which only the renderer reads,
\* is left out)
FreeModeMarker(marker, hp, gesture) ==
    IF hp = null THEN [marker EXCEPT !.visible = FALSE]
    ELSE [visible |-> TRUE,
          position |-> HandWorld(hp),
          color |-> CASE gesture.type = "FULL_OPEN" -> "ff0088"
                      [] gesture.type = "PINCH" -> "ffff00"
                      [] OTHER -> "00ff88",
          scale |-> CASE gesture.type = "FULL_OPEN" -> 300
                      [] gesture.type = "PINCH" -> 150
                      [] OTHER -> 100]

\* a controller that records no gesture
LastGestureNotRecorded(handData) == "NONE"

\* GestureController.update: this.lastGesture = gesture.type
LastGestureOf(handData) == handData.gesture.type

\* GestureController.update: currentMode, which nothing assigns after the
\* constructor, is given handPosition and gesture once
ControllerForwards(handData) ==
    /\ controllerForwards' = controllerForwards + 1
    /\ forwarded' = [handPosition |-> handData.handPosition, gesture |-> handData.gesture]
    /\ UNCHANGED <<currentMode, controllerInits>>

\* handData built from the detector's latest return value
HandDataFromDetector ==
    [handPosition |-> handPosition, gesture |-> detectResult, landmarks |-> landmarks]

\* animate: handData, read from the tracker's getters
HandData ==
    [handPosition |-> handPosition, gesture |-> currentGesture, landmarks |-> landmarks]

\* one frame with the controller run before the integration
FrameStepForceFirst(ps, clampedDelta, handData, draw) ==
    update(FreeModeUpdate(ps, handData.handPosition, handData.gesture, draw), clampedDelta)

\* animate: particleSystem.update, then gestureController.update, which runs
\* FreeMode.update
FrameStep(ps, clampedDelta, handData, draw) ==
    FreeModeUpdate(update(ps, clampedDelta), handData.handPosition, handData.gesture, draw)

\* the timestamp of frame k: init calls animate(0), requestAnimationFrame
\* passes the later ones, 16 ms apart and 200 ms apart every third time
FrameTime(k) == 16 * k + 184 * (k \div 3)

----------------------------------------------------------------------------
(* AtomMode and GalaxyMode on the particle system                          *)

\* new AtomMode()
AtomModeNew == [nucleus |-> null, nucleusPosition |-> VZero, particleOrbits |-> << >>]

\* new GalaxyMode()
GalaxyModeNew ==
    [galaxyCore |-> null, corePosition |-> VZero, rotationSpeed |-> 50,
     particleDistances |-> << >>]

\* AtomMode.init draws an orbit level and a direction for each particle
AtomOrbits(k) == [i \in Particles |-> (i + k) % 3]
AtomLayout(k) ==
    [i \in Particles |->
        SpherePoint(orbitalLevels[AtomOrbits(k)[i] + 1], UnitDirs[((i + k) % 5) + 1])]

\* GalaxyMode.init draws, for each particle, the distance pow(random, 0.7) * 12,
\* an angle (its cosine and sine in thousandths) and random - 0.5 (lift, in
\* hundredths)
GalaxyDraws ==
    <<[distance |-> 500, cos |-> 600, sin |-> 800, lift |-> 25],
      [distance |-> 1000, cos |-> 0, sin |-> -1000, lift |-> -50],
      [distance |-> 0, cos |-> 1000, sin |-> 0, lift |-> 10]>>

GalaxyDistances(k) == [i \in Particles |-> GalaxyDraws[((i + k) % 3) + 1].distance]
GalaxyLayout(k) ==
    [i \in Particles |->
        LET d == GalaxyDraws[((i + k) % 3) + 1]
        IN  Pt(TruncDiv(d.cos * d.distance, 1000), TruncDiv(d.sin * d.distance, 1000),
               TruncDiv(d.lift * d.distance * 20, 10000))]

\* an update in which a hand moves the nucleus whatever its gesture
AtomModeFollowsHand(mode, hp, gesture) ==
    LET at == IF hp # null THEN HandWorld(hp) ELSE mode.nucleusPosition
    IN  [mode EXCEPT !.nucleusPosition = at,
                     !.nucleus = IF mode.nucleus = null THEN null ELSE [position |-> at]]

\* AtomMode.update: a PINCH with a hand moves the nucleus to the hand
AtomModeMoved(mode, hp, gesture) ==
    LET at == IF hp # null /\ gesture.type = "PINCH" THEN HandWorld(hp)
              ELSE mode.nucleusPosition
    IN  [mode EXCEPT !.nucleusPosition = at,
                     !.nucleus = IF mode.nucleus = null THEN null ELSE [position |-> at]]

\* AtomMode.update: the particle system after applyForce and updateColors,
\* mode being the mode after the nucleus has moved
AtomModeUpdate(ps, mode, hp, gesture, draw) ==
    LET forced == applyForce(ps, [i \in Particles |->
                      AtomForce(ps.positions[i], orbitalLevels[mode.particleOrbits[i] + 1],
                                mode.nucleusPosition, HandWorld(hp), gesture,
                                Drift(draw, i), Rnd(draw, i))])
    IN  updateColors(forced, [i \in Particles |->
            AtomColor(forced.positions[i], mode.nucleusPosition)])

\* GalaxyMode.update with a hand: PINCH moves the core, THUMB_UP sets
\* rotationSpeed to 1.5, every other gesture sets it to 0.5
GalaxyModeMoved(mode, hp, gesture) ==
    IF hp = null THEN mode
    ELSE IF gesture.type = "PINCH"
         THEN [mode EXCEPT !.corePosition = HandWorld(hp),
                           !.galaxyCore = [position |-> HandWorld(hp)]]
         ELSE [mode EXCEPT !.rotationSpeed = IF gesture.type = "THUMB_UP" THEN 150 ELSE 50]

\* GalaxyMode.update: the particle system after applyForce and updateColors,
\* mode being the mode after the hand has acted on it
GalaxyModeUpdate(ps, mode, hp, gesture, draw) ==
    LET forced == applyForce(ps, [i \in Particles |->
                      GalaxyForce(ps.positions[i], mode.particleDistances[i],
                                  mode.corePosition, mode.rotationSpeed, HandWorld(hp),
                                  gesture, Drift(draw, i), Rnd(draw, i))])
    IN  updateColors(forced, [i \in Particles |->
            GalaxyColor(forced.positions[i], forced.velocities[i], mode.corePosition)])

----------------------------------------------------------------------------
(* Initial state: the application after init() has built the tracker (and  *)
(* with it the detector), the particle system and the controller           *)

DetectorInit ==
    /\ lastGesture = "NONE"
    /\ gestureStableCount = 0

CallInit ==
    /\ detectResult = NoneResult
    /\ callKind = "none"
    /\ callFrame = null
    /\ prevLast = "NONE"
    /\ prevCount = 0

HistoryInit ==
    /\ lastRaw = "none"
    /\ rawRun = 0
    /\ altRun = 0
    /\ freshRun = 0
    /\ gapLen = 0
    /\ gapBefore = 0
    /\ lastEmit = "NONE"
    /\ emitBeforeGap = "NONE"
    /\ twinLast = "NONE"
    /\ twinCount = 0
    /\ twinResult = NoneResult
    /\ sinceReset = FALSE

TrackerInit ==
    /\ currentGesture = NoneResult
    /\ handPosition = null
    /\ landmarks = null
    /\ detectCalled = FALSE

\* new ParticleSystem(n) draws the layout built, then new GestureController
\* runs FreeMode.init: the marker, randomize() drawing the layout placed, and
\* the colour 0x00ff88
EngineInit(built, placed) ==
    /\ originalPositions = Layout(built)
    /\ positions = Layout(placed)
    /\ velocities = ZeroVelocities
    /\ colors = [i \in Particles |-> Rgb(0, 255, 136)]
    /\ forceFieldMarker =
           [visible |-> FALSE, position |-> VZero, color |-> "00ff88", scale |-> 100]
    /\ controllerLastGesture = "NONE"
    /\ currentMode = "FreeMode"
    /\ controllerInits = 1
    /\ controllerForwards = 0
    /\ forwarded = null

OpInit ==
    /\ opCount = 0
    /\ lastOp = "none"
    /\ seqLen = 0
    /\ cumForce = ZeroVelocities
    /\ clampedPrior = [i \in Particles |-> FALSE]
    /\ everClamped = [i \in Particles |-> FALSE]
    /\ prevVelocities = ZeroVelocities
    /\ prevPositions = positions
    /\ lastDelta = 0
    /\ prevColors = colors
    /\ lastForces = null
    /\ atomMode = AtomModeNew
    /\ galaxyMode = GalaxyModeNew

\* new HandTracker(...): init() has run up to the await of getUserMedia
TrackerNew ==
    [phase |-> "permission", camera |-> "none", hands |-> "open", disposed |-> FALSE,
     late |-> {}]

\* a tracker whose camera delivers frames
TrackerRunning == [TrackerNew EXCEPT !.phase = "running", !.camera = "started"]

\* the scene's hand light is created at (0, 0, 5)
LifeInit(phase, tracker) ==
    /\ appPhase = phase
    /\ appDisposed = FALSE
    /\ handLight = Pt(0, 0, 500)
    /\ lightHand = null
    /\ trackers = <<tracker>>

\* no frame has run
NoFrameYet ==
    /\ tickStart = null
    /\ tickDelta = 0
    /\ tickHand = null
    /\ tickDraw = "calm"
    /\ rendered = null
    /\ detectsPending = 0
    /\ detectsBeforeUpdate = 0

\* init() sets isRunning before it calls animate(0)
TickInit ==
    /\ isRunning = TRUE
    /\ lastTime = 0
    /\ ticks = 0
    /\ pendingFrames = 0
    /\ LifeInit("started", TrackerRunning)
    /\ NoFrameYet

\* the application, which calls no force function on its own
LoopInit ==
    /\ TickInit
    /\ probe = null
    /\ probeForce = null

SensingInit ==
    /\ DetectorInit
    /\ CallInit
    /\ HistoryInit
    /\ TrackerInit

Init ==
    /\ SensingInit
    /\ inputFrame = null
    /\ EngineInit(0, 1)
    /\ OpInit
    /\ LoopInit

----------------------------------------------------------------------------
(* GestureDetector                                                         *)

\* detect(landmarks)
Detect(lm) ==
    LET out == DetectOutcome(lm, lastGesture, gestureStableCount)
    IN  /\ out.count <= MaxCount
        /\ lastGesture' = out.last
        /\ gestureStableCount' = out.count
        /\ detectResult' = out.result

\* a reset that clears the count and keeps the gesture
ResetCountOnly ==
    /\ gestureStableCount' = 0
    /\ UNCHANGED <<lastGesture, detectResult>>

\* reset()
Reset ==
    /\ lastGesture' = "NONE"
    /\ gestureStableCount' = 0
    /\ UNCHANGED detectResult

----------------------------------------------------------------------------
(* HandTracker.handleResults                                               *)

\* results.multiHandLandmarks holds a hand: its first entry is classified
HandleResultsHand(lm) ==
    /\ Detect(lm)
    /\ landmarks' = lm
    /\ currentGesture' = detectResult'
    /\ handPosition' = getPalmCenter(lm)
    /\ detectCalled' = TRUE

\* a tracker that keeps the gesture when the hand is gone
HandleResultsNoHandKeepsGesture ==
    /\ landmarks' = null
    /\ handPosition' = null
    /\ detectCalled' = FALSE
    /\ UNCHANGED <<detectorVars, detectResult, currentGesture>>

\* no hand in the results: detect is not called
HandleResultsNoHand ==
    /\ landmarks' = null
    /\ handPosition' = null
    /\ currentGesture' = NoneResult
    /\ detectCalled' = FALSE
    /\ UNCHANGED <<detectorVars, detectResult>>

----------------------------------------------------------------------------
(* The record of the calls made to the detector                            *)

\* a detect call with the frame lm has been made
RecordCall(lm) ==
    LET valid == ~InvalidLandmarks(lm)
        raw == IF valid THEN RawGesture(lm).type ELSE "none"
    IN  /\ callKind' = IF valid THEN "valid" ELSE "invalid"
        /\ callFrame' = lm
        /\ prevLast' = lastGesture
        /\ prevCount' = gestureStableCount
        /\ IF valid
           THEN /\ lastRaw' = raw
                /\ rawRun' = IF lastRaw = raw THEN Min(rawRun + 1, RunCap) ELSE 1
                /\ altRun' = IF lastRaw # "none" /\ lastRaw # raw
                              THEN Min(altRun + 1, RunCap) ELSE 0
                /\ freshRun' = IF freshRun = 0 THEN 1
                                ELSE IF freshRun > 0 /\ lm = callFrame
                                     THEN Min(freshRun + 1, RunCap) ELSE -1
                /\ gapLen' = 0
                /\ gapBefore' = gapLen
                /\ lastEmit' = detectResult'.type
                /\ emitBeforeGap' = IF gapLen > 0 THEN lastEmit ELSE "NONE"
           ELSE /\ gapLen' = Min(gapLen + 1, MaxGap)
                /\ freshRun' = -1
                /\ UNCHANGED <<lastRaw, rawRun, altRun, gapBefore, lastEmit, emitBeforeGap>>
        /\ twinLast' = DetectOutcome(lm, twinLast, twinCount).last
        /\ twinCount' = DetectOutcome(lm, twinLast, twinCount).count
        /\ twinResult' = DetectOutcome(lm, twinLast, twinCount).result
        /\ UNCHANGED <<inputFrame, sinceReset>>

RecordReset ==
    /\ callKind' = "reset"
    /\ prevLast' = lastGesture
    /\ prevCount' = gestureStableCount
    /\ freshRun' = 0
    /\ lastEmit' = "NONE"
    /\ gapLen' = 0
    /\ twinLast' = "NONE"
    /\ twinCount' = 0
    /\ twinResult' = NoneResult
    /\ sinceReset' = TRUE
    /\ UNCHANGED <<callFrame, lastRaw, rawRun, altRun, gapBefore, emitBeforeGap, inputFrame>>

RecordNoHand ==
    /\ callKind' = "nohand"
    /\ prevLast' = lastGesture
    /\ prevCount' = gestureStableCount
    /\ gapLen' = Min(gapLen + 1, MaxGap)
    /\ UNCHANGED <<callFrame, lastRaw, rawRun, altRun, freshRun, gapBefore,
                   lastEmit, emitBeforeGap, inputFrame, twinVars>>

----------------------------------------------------------------------------
(* The detector and the tracker, driven by camera results and by clients   *)
(* of the detector (the tracker never passes detect a frame without 21     *)
(* landmarks: MediaPipe delivers whole hands)                              *)

Next ==
    \/ \E lm \in InvalidFrames :
          Detect(lm) /\ RecordCall(lm) /\ UNCHANGED <<trackerVars, engineVars, loopVars>>
    \/ Reset /\ RecordReset /\ UNCHANGED <<trackerVars, engineVars, loopVars>>
    \/ \E lm \in SampleFrames :
          HandleResultsHand(lm) /\ RecordCall(lm) /\ UNCHANGED <<engineVars, loopVars>>
    \/ HandleResultsNoHand /\ RecordNoHand /\ UNCHANGED <<engineVars, loopVars>>

Spec == Init /\ [][Next]_vars

----------------------------------------------------------------------------
(* Classification of single frames: a fresh detector is fed one frame,     *)
(* drawn from every hand the generator builds.                             *)

ClassifyInit ==
    /\ SensingInit
    /\ inputFrame \in AllFrames
    /\ EngineInit(0, 1)
    /\ OpInit
    /\ LoopInit

ClassifyFrame ==
    /\ Detect(inputFrame)
    /\ RecordCall(inputFrame)
    /\ UNCHANGED <<trackerVars, engineVars, loopVars>>

SpecClassify == ClassifyInit /\ [][ClassifyFrame]_vars

----------------------------------------------------------------------------
(* The record of the operations made on the particle system                *)

\* the operation op is made, deltaTime being what the latest update was given
\* and forces what the operation's force function returned
NoteCall(op, deltaTime, forces) ==
    /\ opCount < MaxOps
    /\ opCount' = opCount + 1
    /\ lastOp' = op
    /\ prevVelocities' = velocities
    /\ prevPositions' = positions
    /\ prevColors' = colors
    /\ lastDelta' = deltaTime
    /\ lastForces' = forces

\* update is called with deltaTime
NoteOpWith(op, deltaTime) == NoteCall(op, deltaTime, null)

\* an operation that applies no force is made
NoteOp(op) == NoteCall(op, lastDelta, null)

\* an operation that applies forces is made
NoteForce(op, forces) == NoteCall(op, lastDelta, forces)

\* every velocity is zero again: a sequence of applyForce calls starts
SequenceStarts ==
    /\ seqLen' = 0
    /\ cumForce' = ZeroVelocities
    /\ clampedPrior' = [i \in Particles |-> FALSE]
    /\ everClamped' = [i \in Particles |-> FALSE]

\* applyForce is called with forces
SequenceGrows(forces) ==
    IF seqLen < 0 THEN UNCHANGED <<seqLen, cumForce, clampedPrior, everClamped>>
    ELSE /\ seqLen' = seqLen + 1
         /\ cumForce' = [i \in Particles |->
                IF forces[i] = null THEN cumForce[i] ELSE Add(cumForce[i], forces[i])]
         /\ clampedPrior' = everClamped
         /\ everClamped' = [i \in Particles |->
                \/ everClamped[i]
                \/ /\ forces[i] # null
                   /\ LenSq(Add(velocities[i], forces[i])) > MAX_SPEED * MAX_SPEED]

\* update is called: friction ends the sequence unless nothing has moved yet
SequenceBreaks ==
    /\ seqLen' = IF seqLen = 0 THEN 0 ELSE -1
    /\ UNCHANGED <<cumForce, clampedPrior, everClamped>>

----------------------------------------------------------------------------
(* ParticleSystem and GestureController, driven by their clients           *)

\* particleSystem.applyForce(f)
ApplyForce(f) ==
    LET forces == [i \in Particles |-> ClientForce(f, positions[i], i)]
    IN  /\ NoteForce("applyForce", forces)
        /\ velocities' = applyForce(ThePs, forces).velocities
        /\ SequenceGrows(forces)
        /\ UNCHANGED <<positions, originalPositions, colors, modeVars>>

\* particleSystem.update(deltaTime, time)
Update(deltaTime) ==
    /\ NoteOpWith("update", deltaTime)
    /\ positions' = update(ThePs, deltaTime).positions
    /\ velocities' = update(ThePs, deltaTime).velocities
    /\ SequenceBreaks
    /\ UNCHANGED <<originalPositions, colors, modeVars>>

\* particleSystem.reset()
ResetParticles ==
    /\ NoteOp("reset")
    /\ positions' = reset(ThePs, originalPositions).positions
    /\ velocities' = reset(ThePs, originalPositions).velocities
    /\ SequenceStarts
    /\ UNCHANGED <<originalPositions, colors, modeVars>>

\* particleSystem.resetVelocities()
ResetVelocities ==
    /\ NoteOp("resetVelocities")
    /\ velocities' = ZeroVelocities
    /\ SequenceStarts
    /\ UNCHANGED <<positions, originalPositions, colors, modeVars>>

\* particleSystem.randomize(), drawing the layout k
Randomize(k) ==
    /\ NoteOp("randomize")
    /\ positions' = Layout(k)
    /\ velocities' = ZeroVelocities
    /\ SequenceStarts
    /\ UNCHANGED <<originalPositions, colors, modeVars>>

\* FreeMode.init(particleSystem, scene), its randomize() drawing the layout k
FreeModeInit(k) ==
    /\ NoteOp("init")
    /\ forceFieldMarker' =
           [visible |-> FALSE, position |-> VZero, color |-> "00ff88", scale |-> 100]
    /\ positions' = Layout(k)
    /\ velocities' = ZeroVelocities
    /\ colors' = [i \in Particles |-> Rgb(0, 255, 136)]
    /\ SequenceStarts
    /\ UNCHANGED <<originalPositions, controllerLastGesture, controllerVars>>

\* gestureController.update(handData, deltaTime, time): FreeMode.update, then
\* lastGesture
ControllerUpdate(handData, draw) ==
    LET after == FreeModeUpdate(ThePs, handData.handPosition, handData.gesture, draw)
        forces == [i \in Particles |->
                      FreeForce(positions[i], HandWorld(handData.handPosition),
                                handData.gesture, Drift(draw, i), Rnd(draw, i))]
    IN  /\ forceFieldMarker # null
        /\ NoteForce("modeUpdate", forces)
        /\ velocities' = after.velocities
        /\ colors' = after.colors
        /\ forceFieldMarker' =
               FreeModeMarker(forceFieldMarker, handData.handPosition, handData.gesture)
        /\ ControllerForwards(handData)
        /\ controllerLastGesture' = LastGestureOf(handData)
        /\ SequenceGrows(forces)
        /\ UNCHANGED <<positions, originalPositions>>

\* the hand data the controller is driven with: no hand, and a hand at the
\* palm centre of the sample frames with each gesture the detector emits
HandInputs ==
    { [handPosition |-> null, gesture |-> NoneResult, landmarks |-> null] }
    \cup
    { [handPosition |-> Pt(50, 70, 0), gesture |-> g, landmarks |-> null] :
        g \in { [type |-> "PINCH", confidence |-> 90],
                [type |-> "PEACE", confidence |-> 85],
                [type |-> "FULL_OPEN", confidence |-> 90] } }

ParticlesInit ==
    /\ SensingInit
    /\ inputFrame = null
    /\ \E placed \in LayoutIds : EngineInit(0, placed)
    /\ OpInit
    /\ LoopInit

ParticlesNext ==
    /\ \/ \E f \in ForceFields : ApplyForce(f)
       \/ \E deltaTime \in DeltaTimes : Update(deltaTime)
       \/ ResetParticles
       \/ ResetVelocities
       \/ \E k \in LayoutIds : Randomize(k)
       \/ \E k \in LayoutIds : FreeModeInit(k)
       \/ \E handData \in HandInputs, draw \in RandomDraws : ControllerUpdate(handData, draw)
    /\ UNCHANGED <<sensingVars, recordVars, loopVars, modesVars>>

SpecParticles == ParticlesInit /\ [][ParticlesNext]_vars

----------------------------------------------------------------------------
(* The three modes, driven by a client that holds the particle system: a   *)
(* mode is updated only after its init has run for the system's particles  *)

\* FreeMode.dispose(scene)
FreeModeDispose ==
    /\ NoteOp("dispose")
    /\ forceFieldMarker' = null
    /\ UNCHANGED <<particleVars, controllerLastGesture, controllerVars, seqLen, cumForce,
                   clampedPrior, everClamped, atomMode, galaxyMode>>

\* AtomMode.init(particleSystem, scene), drawing the layout k
AtomInit(k) ==
    /\ NoteOp("init")
    /\ atomMode' = [atomMode EXCEPT !.nucleus = [position |-> atomMode.nucleusPosition],
                                    !.particleOrbits = AtomOrbits(k)]
    /\ positions' = AtomLayout(k)
    /\ velocities' = ZeroVelocities
    /\ colors' = [i \in Particles |-> Rgb(0, 255, 255)]
    /\ SequenceStarts
    /\ UNCHANGED <<originalPositions, modeVars, galaxyMode>>

\* AtomMode.update(particleSystem, handPosition, gesture, deltaTime, time)
AtomUpdate(handData, draw) ==
    LET moved == AtomModeMoved(atomMode, handData.handPosition, handData.gesture)
        after == AtomModeUpdate(ThePs, moved, handData.handPosition, handData.gesture, draw)
        forces == [i \in Particles |->
                      AtomForce(positions[i], orbitalLevels[moved.particleOrbits[i] + 1],
                                moved.nucleusPosition, HandWorld(handData.handPosition),
                                handData.gesture, Drift(draw, i), Rnd(draw, i))]
    IN  /\ DOMAIN atomMode.particleOrbits = Particles
        /\ NoteForce("modeUpdate", forces)
        /\ atomMode' = moved
        /\ velocities' = after.velocities
        /\ colors' = after.colors
        /\ SequenceGrows(forces)
        /\ UNCHANGED <<positions, originalPositions, modeVars, galaxyMode>>

\* AtomMode.dispose(scene)
AtomDispose ==
    /\ NoteOp("dispose")
    /\ atomMode' = [atomMode EXCEPT !.nucleus = null]
    /\ UNCHANGED <<particleVars, modeVars, seqLen, cumForce, clampedPrior, everClamped,
                   galaxyMode>>

\* GalaxyMode.init(particleSystem, scene), drawing the layout k
GalaxyInit(k) ==
    /\ NoteOp("init")
    /\ galaxyMode' = [galaxyMode EXCEPT !.galaxyCore = [position |-> galaxyMode.corePosition],
                                        !.particleDistances = GalaxyDistances(k)]
    /\ positions' = GalaxyLayout(k)
    /\ velocities' = ZeroVelocities
    /\ colors' = [i \in Particles |-> GalaxyBase(GalaxyDistances(k)[i])]
    /\ SequenceStarts
    /\ UNCHANGED <<originalPositions, modeVars, atomMode>>

\* GalaxyMode.update(particleSystem, handPosition, gesture, deltaTime, time);
\* a PINCH with a hand after dispose copies corePosition and then fails on
\* the core that is null, before any force is applied
GalaxyUpdate(handData, draw) ==
    LET hp == handData.handPosition
        moved == GalaxyModeMoved(galaxyMode, hp, handData.gesture)
        after == GalaxyModeUpdate(ThePs, moved, hp, handData.gesture, draw)
        forces == [i \in Particles |->
                      GalaxyForce(positions[i], moved.particleDistances[i],
                                  moved.corePosition, moved.rotationSpeed, HandWorld(hp),
                                  handData.gesture, Drift(draw, i), Rnd(draw, i))]
    IN  /\ DOMAIN galaxyMode.particleDistances = Particles
        /\ IF hp # null /\ handData.gesture.type = "PINCH" /\ galaxyMode.galaxyCore = null
           THEN /\ NoteOp("modeUpdate")
                /\ galaxyMode' = [galaxyMode EXCEPT !.corePosition = HandWorld(hp)]
                /\ UNCHANGED <<velocities, colors, seqLen, cumForce, clampedPrior,
                               everClamped>>
           ELSE /\ NoteForce("modeUpdate", forces)
                /\ galaxyMode' = moved
                /\ velocities' = after.velocities
                /\ colors' = after.colors
                /\ SequenceGrows(forces)
        /\ UNCHANGED <<positions, originalPositions, modeVars, atomMode>>

\* GalaxyMode.dispose(scene)
GalaxyDispose ==
    /\ NoteOp("dispose")
    /\ galaxyMode' = [galaxyMode EXCEPT !.galaxyCore = null]
    /\ UNCHANGED <<particleVars, modeVars, seqLen, cumForce, clampedPrior, everClamped,
                   atomMode>>

\* the hand data a client drives a mode with: no hand, and a hand with a
\* gesture object of its own making
ModeInputs ==
    { [handPosition |-> null, gesture |-> NoneResult, landmarks |-> null] }
    \cup
    { [handPosition |-> Pt(50, 70, 0), gesture |-> g, landmarks |-> null] :
        g \in { [type |-> "PINCH", confidence |-> 90],
                [type |-> "PEACE", confidence |-> 85],
                [type |-> "THUMB_UP", confidence |-> 90] } }

ModesUnchanged == UNCHANGED <<atomMode, galaxyMode>>

ModesNext ==
    /\ \/ ApplyForce("skipOdd") /\ ModesUnchanged
       \/ Update(MAX_DELTA) /\ ModesUnchanged
       \/ ResetParticles /\ ModesUnchanged
       \/ Randomize(1) /\ ModesUnchanged
       \/ FreeModeInit(0) /\ ModesUnchanged
       \/ \E handData \in HandInputs : ControllerUpdate(handData, "gust") /\ ModesUnchanged
       \/ FreeModeDispose
       \/ AtomInit(1)
       \/ \E handData \in ModeInputs : AtomUpdate(handData, "gust")
       \/ AtomDispose
       \/ GalaxyInit(0)
       \/ \E handData \in ModeInputs : GalaxyUpdate(handData, "gust")
       \/ GalaxyDispose
    /\ UNCHANGED <<sensingVars, recordVars, loopVars>>

SpecModes == ParticlesInit /\ [][ModesNext]_vars

----------------------------------------------------------------------------
(* The render loop: camera results arrive between frames                   *)

\* a frame that hands the whole time since the last one to the engine
DeltaUnclamped(last, currentTime) == IF last # 0 THEN currentTime - last ELSE 0

\* animate: deltaTime is 0 while lastTime is 0 (falsy), else the time since
\* lastTime; clampedDelta = Math.min(deltaTime, 0.1), here in ms
ClampedDelta(last, currentTime) ==
    Min(IF last # 0 THEN currentTime - last ELSE 0, MAX_DELTA)

\* animate(currentTime) past its test of isRunning, with a mode that has its
\* marker; draw is what Math.random() gives during the frame.  init() makes
\* the first call itself, requestAnimationFrame the later ones, each of
\* which schedules the next
RunFrame(currentTime, draw) ==
    LET clampedDelta == ClampedDelta(lastTime, currentTime)
        handData == HandData
        after == FrameStep(ThePs, clampedDelta, handData, draw)
    IN  /\ ticks < MaxTicks
        /\ forceFieldMarker # null
        /\ ticks = 0 \/ pendingFrames > 0
        /\ pendingFrames' = IF ticks = 0 THEN pendingFrames + 1 ELSE pendingFrames
        /\ lastTime' = currentTime
        /\ positions' = after.positions
        /\ velocities' = after.velocities
        /\ colors' = after.colors
        /\ forceFieldMarker' =
               FreeModeMarker(forceFieldMarker, handData.handPosition, handData.gesture)
        /\ ControllerForwards(handData)
        /\ controllerLastGesture' = LastGestureOf(handData)
        /\ rendered' = [positions |-> after.positions, colors |-> after.colors]
        /\ ticks' = ticks + 1
        /\ tickStart' = [positions |-> positions, velocities |-> velocities]
        /\ tickDelta' = clampedDelta
        /\ tickHand' = handData
        /\ tickDraw' = draw
        /\ detectsBeforeUpdate' = detectsPending
        /\ detectsPending' = 0
        /\ UNCHANGED <<originalPositions, opVars, modesVars, sensingVars, recordVars,
                       probeVars>>

\* animate(currentTime), a frame of a running application
Animate(draw) ==
    /\ isRunning
    /\ RunFrame(FrameTime(ticks), draw)
    /\ UNCHANGED <<isRunning, lifeVars>>

\* a detect call is counted
NoteDetect ==
    /\ detectsPending' = Min(detectsPending + 1, 2)
    /\ UNCHANGED <<tickStart, tickDelta, tickHand, tickDraw, rendered, detectsBeforeUpdate>>

\* the hand the camera shows the loop: a pinch
LoopFrames ==
    { MakeHand("wide", "touch", <<"straight", "bent", "bent", "bent">>) }

RunningInit ==
    /\ SensingInit
    /\ inputFrame = null
    /\ \E placed \in LayoutIds : EngineInit(0, placed)
    /\ OpInit
    /\ LoopInit

LoopNext ==
    \/ \E lm \in LoopFrames :
          HandleResultsHand(lm) /\ NoteDetect
              /\ UNCHANGED <<recordVars, engineVars, appVars, probeVars>>
    \/ HandleResultsNoHand /\ UNCHANGED <<recordVars, engineVars, loopVars>>
    \/ \E draw \in RandomDraws : Animate(draw)

SpecLoop == RunningInit /\ [][LoopNext]_vars

----------------------------------------------------------------------------
(* The terms each mode adds whatever the hand does                         *)

\* FreeMode: the boundary spring beyond radius 30 (0.05 times the excess),
\* the centering pull -0.005 * position, randomDrift(0.08)
FreeBaseline(position, drift) ==
    LET distFromCenter == ISqrt(LenSq(position))
        boundaryForce ==
            IF LenSq(position) > BOUNDARY_RADIUS * BOUNDARY_RADIUS
            THEN ScaleDiv(position, -(((distFromCenter - BOUNDARY_RADIUS) * 5) \div 100),
                          distFromCenter)
            ELSE VZero
    IN  Add(Add(boundaryForce, ScaleDiv(position, -5, 1000)), drift)

\* AtomMode: the spring toward the orbit radius, orbitalForce 0.8,
\* randomDrift(0.05)
AtomBaseline(position, orbitRadius, nucleusPosition, drift) ==
    LET outward == Sub(position, nucleusPosition)
        dist == ISqrt(LenSq(outward))
        spring == IF dist = 0 THEN VZero
                  ELSE ScaleDiv(outward, TruncDiv(-(dist - orbitRadius) * 45, 100), dist)
    IN  Add(Add(spring, orbitalForce(position, nucleusPosition, 80)), DriftOf(drift, 5))

\* GalaxyMode: the spring toward the target radius, the tangent times
\* rotationSpeed, the flattening of z, randomDrift(0.03)
GalaxyBaseline(position, targetRadius, corePosition, rotationSpeed, drift) ==
    LET toCenter == Sub(corePosition, position)
        dist == ISqrt(LenSq(toCenter))
        springForce == IF dist = 0 THEN VZero
                       ELSE ScaleDiv(Sub(position, corePosition),
                                     TruncDiv(-(dist - targetRadius) * 35, 100), dist)
    IN  Add(Add(Add(springForce, GalaxyTangent(toCenter, rotationSpeed)),
                Pt(0, 0, TruncDiv(-position.z * 5, 100))), DriftOf(drift, 3))

\* the baseline of the mode pr.kind for the call pr
ModeBaseline(pr) ==
    CASE pr.kind = "free" -> FreeBaseline(pr.position, Drift(pr.draw, 0))
      [] pr.kind = "atom" ->
             AtomBaseline(pr.position, pr.radius, pr.center, Drift(pr.draw, 0))
      [] pr.kind = "galaxy" ->
             GalaxyBaseline(pr.position, pr.radius, pr.center, pr.speed, Drift(pr.draw, 0))

----------------------------------------------------------------------------
(* The force functions on their own: one is called for one particle, with  *)
(* inputs drawn at the start, while camera results reach the tracker       *)

\* positions of the particle: the origin, the hand's place in the world, two
\* places closer than 0.1 to it and one exactly 0.1 from it, a place straight
\* behind it, two places in the cloud, one beyond the boundary radius
ProbePositions ==
    { Pt(0, 0, 0), Pt(0, -600, 0), Pt(5, -600, 0), Pt(0, -600, -9), Pt(10, -600, 0),
      Pt(0, -600, 300), Pt(300, 400, 0), Pt(-480, 0, 640), Pt(3600, 0, 4800) }

\* gesture objects a caller may pass, the detector's own among them
ProbeGestures ==
    { [type |-> "NONE", confidence |-> 0], [type |-> "PINCH", confidence |-> 90],
      [type |-> "PEACE", confidence |-> 85], [type |-> "FULL_OPEN", confidence |-> 90],
      [type |-> "THUMB_UP", confidence |-> 90] }

ProbeHands == { null, Pt(50, 70, 0) }

\* a call of a mode's force function: center is the nucleus or the core,
\* radius the particle's orbit radius or target radius, speed rotationSpeed
ModeProbes ==
    { [kind |-> "free", position |-> p, handPosition |-> hp, gesture |-> g, draw |-> d,
       center |-> VZero, radius |-> 0, speed |-> 0] :
        p \in ProbePositions, hp \in ProbeHands, g \in ProbeGestures, d \in RandomDraws }
    \cup
    { [kind |-> k, position |-> p, handPosition |-> hp, gesture |-> g, draw |-> "gust",
       center |-> c, radius |-> 400, speed |-> sp] :
        k \in {"atom", "galaxy"},
        p \in { Pt(0, 0, 0), Pt(0, -600, 0), Pt(300, 400, 0), Pt(-480, 0, 640) },
        hp \in ProbeHands, g \in ProbeGestures, c \in { VZero, Pt(0, -600, 0) },
        sp \in {50, 150} }

\* a call of attractionForce, of repulsionForce and of orbitalForce with the
\* same position and target: center is the target, speed the strength (and,
\* in tenths, orbitalForce's speed)
PairProbes ==
    { [kind |-> "pair", position |-> p, handPosition |-> null, gesture |-> NoneResult,
       draw |-> d, center |-> t, radius |-> 0, speed |-> s] :
        p \in ProbePositions \ { Pt(3600, 0, 4800) }, d \in RandomDraws,
        t \in { VZero, Pt(0, -600, 0) }, s \in {5, 10, 15} }

\* the force function of the mode pr.kind, called for one particle
ModeForce(pr) ==
    LET hw == HandWorld(pr.handPosition)
        drift == Drift(pr.draw, 0)
        rnd == Rnd(pr.draw, 0)
    IN  CASE pr.kind = "free" -> FreeForce(pr.position, hw, pr.gesture, drift, rnd)
          [] pr.kind = "atom" ->
                 AtomForce(pr.position, pr.radius, pr.center, hw, pr.gesture, drift, rnd)
          [] pr.kind = "galaxy" ->
                 GalaxyForce(pr.position, pr.radius, pr.center, pr.speed, hw, pr.gesture,
                             drift, rnd)

ProbeMode ==
    /\ probeForce = null
    /\ probe.kind # "pair"
    /\ probeForce' = ModeForce(probe)
    /\ UNCHANGED probe

ProbePair ==
    /\ probeForce = null
    /\ probe.kind = "pair"
    /\ probeForce' =
           [attraction |-> attractionForce(probe.position, probe.center, probe.speed),
            repulsion |-> repulsionForce(probe.position, probe.center, probe.speed,
                                         Rnd(probe.draw, 0)),
            orbital |-> orbitalForce(probe.position, probe.center, probe.speed * 10)]
    /\ UNCHANGED probe

ForcesInit ==
    /\ SensingInit
    /\ inputFrame = null
    /\ EngineInit(0, 1)
    /\ OpInit
    /\ TickInit
    /\ probe \in ModeProbes \cup PairProbes
    /\ probeForce = null

ForcesNext ==
    \/ ProbeMode /\ UNCHANGED <<sensingVars, recordVars, engineVars, appVars, tickVars>>
    \/ ProbePair /\ UNCHANGED <<sensingVars, recordVars, engineVars, appVars, tickVars>>
    \/ \E lm \in LoopFrames :
          HandleResultsHand(lm) /\ RecordCall(lm) /\ UNCHANGED <<engineVars, loopVars>>
    \/ HandleResultsNoHand /\ RecordNoHand /\ UNCHANGED <<engineVars, loopVars>>

SpecForces == ForcesInit /\ [][ForcesNext]_vars

----------------------------------------------------------------------------
(* Claims about the stability filter                                       *)

\* C1: detect returns a type other than NONE only when that type has been the
\* raw classification of at least STABLE_FRAMES classified frames in a row,
\* the latest of them this call; otherwise it returns NONE.
C1_EmitOnlyAfterStableRun ==
    detectResult.type # "NONE" =>
        /\ detectResult.type = lastRaw
        /\ rawRun >= STABLE_FRAMES

\* a gesture is returned by a classified call
C1_Witness ==
    /\ callKind = "valid"
    /\ detectResult.type = "PEACE"
    /\ rawRun >= STABLE_FRAMES

\* C2 as stated: from a fresh or reset detector fed one frame whose raw
\* classification is G # NONE, the first STABLE_FRAMES - 1 calls return NONE
\* and call number STABLE_FRAMES returns G.
C2_AsStated ==
    (callKind = "valid" /\ freshRun >= 1 /\ lastRaw # "NONE") =>
        /\ freshRun < STABLE_FRAMES => detectResult.type = "NONE"
        /\ freshRun = STABLE_FRAMES => detectResult.type = lastRaw

\* C2 amended: the first STABLE_FRAMES calls return NONE and call number
\* STABLE_FRAMES + 1 (the 3rd) returns G.
C2_EmitOnCallAfterThreshold ==
    (callKind = "valid" /\ freshRun >= 1 /\ lastRaw # "NONE") =>
        /\ freshRun <= STABLE_FRAMES => detectResult = NoneResult
        /\ freshRun = STABLE_FRAMES + 1 => detectResult = RawGesture(callFrame)

\* the same frame has been fed STABLE_FRAMES + 1 times to a fresh detector
C2_Witness ==
    /\ callKind = "valid"
    /\ freshRun = STABLE_FRAMES + 1
    /\ lastRaw = "PINCH"
    /\ detectResult.type = "PINCH"

\* C3: a classified call whose raw gesture differs from that of the classified
\* call before it returns NONE, however long the alternation has lasted, and so
\* does the first call on a fresh or reset detector.
C3_AlternationNeverEmits ==
    (callKind = "valid" /\ (altRun >= 1 \/ freshRun = 1)) => detectResult.type = "NONE"

\* three changes of raw gesture in a row, the latest to a gesture
C3_Witness ==
    /\ callKind = "valid"
    /\ altRun >= 3
    /\ lastRaw = "PINCH"
    /\ detectResult.type = "NONE"

\* C5: a rejected frame and a no-hand result leave lastGesture and
\* gestureStableCount as they were, handleResults does not call detect when
\* there is no hand, and the first classified frame after a gap is emitted
\* when its raw gesture is the one that was being emitted before the gap.
C5_GapKeepsStability ==
    /\ callKind \in {"invalid", "nohand"} =>
           (lastGesture = prevLast /\ gestureStableCount = prevCount)
    /\ callKind = "nohand" => ~detectCalled
    /\ (callKind = "valid" /\ gapBefore >= 1 /\ emitBeforeGap # "NONE"
          /\ lastRaw = emitBeforeGap) => detectResult.type = lastRaw

\* a gesture emitted before a gap of MaxGap results is emitted right after it
C5_Witness ==
    /\ callKind = "valid"
    /\ gapBefore = MaxGap
    /\ emitBeforeGap = "FULL_OPEN"
    /\ lastRaw = "FULL_OPEN"
    /\ detectResult.type = "FULL_OPEN"

\* C6 as stated: a rejected frame returns {NONE, 0} and leaves the debounce
\* state a frame classified NONE would have left.
C6_AsStated ==
    callKind = "invalid" =>
        /\ detectResult = NoneResult
        /\ lastGesture = StabilityStep("NONE", prevLast, prevCount).last
        /\ gestureStableCount = StabilityStep("NONE", prevLast, prevCount).count

\* C6 amended: a rejected frame returns {NONE, 0} and leaves the debounce
\* state untouched.
C6_RejectedFrameLeavesState ==
    callKind = "invalid" =>
        /\ detectResult = NoneResult
        /\ lastGesture = prevLast
        /\ gestureStableCount = prevCount

\* a frame is rejected while a gesture is stable
C6_Witness ==
    /\ callKind = "invalid"
    /\ callFrame = ShortFrame
    /\ lastGesture = "PINCH"
    /\ gestureStableCount >= STABLE_FRAMES

----------------------------------------------------------------------------
(* Claims about the raw classification                                     *)

\* C4: the raw classification of a 21-landmark frame follows the priority
\* PINCH > PEACE > FULL_OPEN > NONE.
C4_PriorityOrder ==
    callKind = "valid" =>
        /\ isPinch(callFrame) => lastGesture = "PINCH"
        /\ (isPeaceSign(callFrame) /\ ~isPinch(callFrame)) => lastGesture = "PEACE"
        /\ (isFullHandOpen(callFrame) /\ ~isPinch(callFrame) /\ ~isPeaceSign(callFrame))
              => lastGesture = "FULL_OPEN"
        /\ (~isPinch(callFrame) /\ ~isPeaceSign(callFrame) /\ ~isFullHandOpen(callFrame))
              => lastGesture = "NONE"

\* a frame on which all three predicates hold has been classified
C4_Witness ==
    /\ callKind = "valid"
    /\ isPinch(callFrame)
    /\ isPeaceSign(callFrame)
    /\ isFullHandOpen(callFrame)
    /\ lastGesture = "PINCH"


----------------------------------------------------------------------------
(* Claims about the speed limit                                            *)

Abs(a) == IF a < 0 THEN -a ELSE a

\* a speed of 5.0, to the resolution of the grid
AtMaxSpeed(v) ==
    /\ LenSq(v) <= MAX_SPEED * MAX_SPEED
    /\ LenSq(v) >= (MAX_SPEED - 3) * (MAX_SPEED - 3)

\* v points where c points, to the resolution of the grid: truncation moves
\* each component of v by less than one
SameDirection(v, c) ==
    LET slack == Abs(c.x) + Abs(c.y) + Abs(c.z)
    IN  /\ v.x * c.x + v.y * c.y + v.z * c.z > 0
        /\ Abs(v.y * c.z - v.z * c.y) <= slack
        /\ Abs(v.z * c.x - v.x * c.z) <= slack
        /\ Abs(v.x * c.y - v.y * c.x) <= slack

\* C9: whatever operations have been made on the particle system, every
\* velocity has magnitude at most 5.0.
C9_SpeedWithinLimit ==
    \A i \in Particles : LenSq(velocities[i]) <= MAX_SPEED * MAX_SPEED

\* applyForce has just cut a velocity down to the limit
C9_Witness ==
    /\ lastOp = "applyForce"
    /\ \E i \in Particles :
          /\ everClamped[i]
          /\ ~clampedPrior[i]
          /\ prevVelocities[i] # velocities[i]
          /\ LenSq(velocities[i]) = MAX_SPEED * MAX_SPEED

\* C10 as stated: after a sequence of applyForce calls from zero velocity
\* whose forces sum to more than 5.0, the velocity has magnitude 5.0 and the
\* direction of the sum.
C10_AsStated ==
    \A i \in Particles :
        (seqLen >= 1 /\ LenSq(cumForce[i]) > MAX_SPEED * MAX_SPEED) =>
            /\ AtMaxSpeed(velocities[i])
            /\ SameDirection(velocities[i], cumForce[i])

\* C10 amended: the same, for a sequence none of whose earlier calls had its
\* result cut down by the limit; the velocity is then the limited sum.
C10_LimitedSumWhenNotCutBefore ==
    \A i \in Particles :
        (seqLen >= 1 /\ LenSq(cumForce[i]) > MAX_SPEED * MAX_SPEED /\ ~clampedPrior[i]) =>
            /\ velocities[i] = limitSpeed(cumForce[i], MAX_SPEED)
            /\ AtMaxSpeed(velocities[i])
            /\ SameDirection(velocities[i], cumForce[i])

\* two calls, neither force above the limit, whose sum is cut down
C10_Witness ==
    /\ seqLen = 2
    /\ lastOp = "applyForce"
    /\ \E i \in Particles :
          /\ ~clampedPrior[i]
          /\ everClamped[i]
          /\ cumForce[i].x # 0
          /\ cumForce[i].y # 0
          /\ LenSq(cumForce[i]) > MAX_SPEED * MAX_SPEED

----------------------------------------------------------------------------
(* Claims about the render loop                                            *)

\* C7 as stated: in a frame the forces are applied first, to the velocities
\* and at the positions the frame began with; then the integration moves the
\* particles by the new velocities and applies the friction; the render call
\* draws the outcome.
C7_AsStated ==
    ticks >= 1 =>
        \A i \in Particles :
            LET force == FreeForce(tickStart.positions[i], HandWorld(tickHand.handPosition),
                                   tickHand.gesture, Drift(tickDraw, i), Rnd(tickDraw, i))
                forced == limitSpeed(Add(tickStart.velocities[i], force), MAX_SPEED)
            IN  /\ positions[i] = Add(tickStart.positions[i], Displacement(forced, tickDelta))
                /\ velocities[i] = applyFriction(forced, FRICTION)
                /\ rendered.positions[i] = positions[i]
                /\ rendered.colors[i] = colors[i]

\* C7 amended: in a frame the integration runs first, moving each particle by
\* the velocity the frame began with and applying the friction; then the
\* forces are applied, at the new positions and to the slowed velocities, for
\* all particles; then the colours are computed from the outcome; the render
\* call draws those positions and colours.
C7_IntegrationThenForces ==
    ticks >= 1 =>
        \A i \in Particles :
            LET moved == Add(tickStart.positions[i],
                             Displacement(tickStart.velocities[i], tickDelta))
                slowed == applyFriction(tickStart.velocities[i], FRICTION)
                force == FreeForce(moved, HandWorld(tickHand.handPosition),
                                   tickHand.gesture, Drift(tickDraw, i), Rnd(tickDraw, i))
            IN  /\ positions[i] = moved
                /\ velocities[i] = limitSpeed(Add(slowed, force), MAX_SPEED)
                /\ colors[i] = FreeColor(positions[i], velocities[i],
                                         HandWorld(tickHand.handPosition))
                /\ rendered.positions[i] = positions[i]
                /\ rendered.colors[i] = colors[i]

\* a frame with a hand pinching has moved a particle and changed its velocity
C7_Witness ==
    /\ ticks >= 3
    /\ tickDelta > 0
    /\ tickHand.gesture.type = "PINCH"
    /\ \E i \in Particles :
          /\ positions[i] # tickStart.positions[i]
          /\ velocities[i] # applyFriction(tickStart.velocities[i], FRICTION)

\* C8 as stated: between the GestureController.update of a frame and the one
\* before it there is exactly one detect call, and the gesture the update
\* consumes is what that call returned.
C8_AsStated ==
    ticks >= 1 =>
        /\ detectsBeforeUpdate = 1
        /\ tickHand.gesture = detectResult

\* C8 amended: a frame calls detect not at all: it leaves the detector as it
\* is and consumes what the latest camera result left in the tracker, which is
\* the return value of the latest detect call when that result showed a hand,
\* and {NONE, 0} with no hand position when it showed none or none has come.
C8_FrameReadsTracker ==
    [][ ticks' # ticks =>
          /\ UNCHANGED <<lastGesture, gestureStableCount, detectResult>>
          /\ tickHand'.gesture = (IF detectCalled THEN detectResult ELSE NoneResult)
          /\ tickHand'.handPosition =
                 (IF detectCalled THEN getPalmCenter(landmarks) ELSE null) ]_vars

\* a frame has consumed a gesture classified before the frame before it
C8_Witness ==
    /\ ticks >= 2
    /\ detectsBeforeUpdate = 0
    /\ tickHand.gesture.type = "PINCH"
    /\ controllerLastGesture = "PINCH"

----------------------------------------------------------------------------
(* Claims about the particle system's buffers                              *)

\* C11: the particle count is fixed at construction: the position buffer,
\* velocities, originalPositions and the colour buffer hold one entry per
\* particle, every position drawn at construction lies within radius 10 of
\* the origin, and no operation (applyForce, update, updateColors, reset,
\* randomize, init, update and dispose of any mode) changes that.
C11_CountFixed ==
    /\ DOMAIN positions = Particles
    /\ DOMAIN velocities = Particles
    /\ DOMAIN originalPositions = Particles
    /\ DOMAIN colors = Particles
    /\ \A i \in Particles : LenSq(originalPositions[i]) <= 1000 * 1000

\* a mode has been initialised, updated and disposed of
C11_Witness ==
    /\ opCount = MaxOps
    /\ lastOp = "dispose"
    /\ galaxyMode.galaxyCore = null
    /\ DOMAIN galaxyMode.particleDistances = Particles
    /\ \E i \in Particles : velocities[i] # VZero

\* C12: one update(deltaTime, time) moves every particle by velocity *
\* deltaTime * 2.0, taking the velocity held before the call, and then
\* multiplies that velocity by 0.95, whatever deltaTime is: no component
\* changes sign or grows, and a zero velocity stays zero. On the grid both
\* products are truncated toward zero, so each is within one grid step.
C12_UpdateMovesThenDamps ==
    lastOp = "update" =>
        \A i \in Particles :
            LET moved == Sub(positions[i], prevPositions[i])
                before == prevVelocities[i]
                Near(a, b, unit) ==
                    /\ Abs(a) <= Abs(b)
                    /\ Abs(b) - Abs(a) < unit
                    /\ (a >= 0 /\ b >= 0) \/ (a <= 0 /\ b <= 0)
            IN  /\ Near(1000 * moved.x, before.x * lastDelta * 2, 1000)
                /\ Near(1000 * moved.y, before.y * lastDelta * 2, 1000)
                /\ Near(1000 * moved.z, before.z * lastDelta * 2, 1000)
                /\ Near(100 * velocities[i].x, 95 * before.x, 100)
                /\ Near(100 * velocities[i].y, 95 * before.y, 100)
                /\ Near(100 * velocities[i].z, 95 * before.z, 100)
                /\ before = VZero => velocities[i] = VZero

\* an update with deltaTime 0.1 has moved a particle and slowed it down
C12_Witness ==
    /\ lastOp = "update"
    /\ lastDelta = MAX_DELTA
    /\ \E i \in Particles :
          /\ positions[i] # prevPositions[i]
          /\ LenSq(velocities[i]) < LenSq(prevVelocities[i])
          /\ velocities[i] # VZero

\* an update with deltaTime 0 has slowed a particle down all the same
C12_WitnessZeroDelta ==
    /\ lastOp = "update"
    /\ lastDelta = 0
    /\ \E i \in Particles : LenSq(velocities[i]) < LenSq(prevVelocities[i])

\* C13: whatever operations came before (applyForce, update, randomize, init
\* and update of FreeMode, AtomMode and GalaxyMode), reset() puts every
\* particle at the position it was given at construction and sets every
\* velocity to zero; originalPositions is never modified; a second reset
\* changes nothing.
C13_ResetRestoresConstruction ==
    /\ originalPositions = Layout(0)
    /\ lastOp = "reset" =>
          /\ positions = Layout(0)
          /\ velocities = ZeroVelocities
          /\ reset(ThePs, originalPositions) = ThePs

\* reset has been called on particles that a mode had placed and set moving
C13_Witness ==
    /\ lastOp = "reset"
    /\ opCount = MaxOps
    /\ DOMAIN atomMode.particleOrbits = Particles
    /\ \E i \in Particles :
          /\ prevVelocities[i] # VZero
          /\ prevPositions[i] # originalPositions[i]

\* C14: applyForce changes velocities only: positions and colours are as they
\* were before the call, a particle whose force function result is null (or
\* another falsy value) keeps its velocity exactly, and every other particle
\* has the force added and the speed limit applied.
C14_ApplyForceChangesVelocitiesOnly ==
    lastOp = "applyForce" =>
        /\ positions = prevPositions
        /\ colors = prevColors
        /\ \A i \in Particles :
              IF lastForces[i] = null THEN velocities[i] = prevVelocities[i]
              ELSE velocities[i] = limitSpeed(Add(prevVelocities[i], lastForces[i]), MAX_SPEED)

\* a call whose force function returned null for a moving particle and a
\* force for another one
C14_Witness ==
    /\ lastOp = "applyForce"
    /\ \E i, j \in Particles :
          /\ lastForces[i] = null
          /\ prevVelocities[i] # VZero
          /\ lastForces[j] # null
          /\ velocities[j] # prevVelocities[j]

----------------------------------------------------------------------------
(* Claims about what the detector and the tracker report                   *)

\* C15: every result detect returns and every currentGesture the tracker
\* holds has a type among NONE, PINCH, PEACE and FULL_OPEN (never THUMB_UP,
\* which AtomMode and GalaxyMode branch on) and a confidence between 0 and 1,
\* which is 0 when the type is NONE.
C15_ReportedGestures ==
    \A g \in {detectResult, currentGesture} :
        /\ g.type \in {"NONE", "PINCH", "PEACE", "FULL_OPEN"}
        /\ g.type # "THUMB_UP"
        /\ g.confidence >= 0
        /\ g.confidence <= 100
        /\ g.type = "NONE" => g.confidence = 0

\* the tracker holds a gesture that detect has just emitted
C15_Witness ==
    /\ callKind = "valid"
    /\ detectResult.type = "FULL_OPEN"
    /\ detectResult.confidence = 90
    /\ currentGesture = detectResult

\* C16: reset() returns the debounce state to its construction value
\* (lastGesture NONE, gestureStableCount 0) from any state; from then on the
\* detector is in the state of, and returns what is returned by, a freshly
\* constructed detector given the same detect calls, so that a gesture has to
\* be repeated for the whole stability run again before it is emitted.
C16_ResetGivesFreshDetector ==
    /\ callKind = "reset" => lastGesture = "NONE" /\ gestureStableCount = 0
    /\ sinceReset =>
          /\ lastGesture = twinLast
          /\ gestureStableCount = twinCount
          /\ callKind \in {"valid", "invalid"} => detectResult = twinResult
          /\ freshRun \in 1 .. STABLE_FRAMES => detectResult.type = "NONE"

\* a detector that held a stable gesture was reset and has since been given
\* the frame of a gesture often enough to emit it
C16_Witness ==
    /\ sinceReset
    /\ callKind = "valid"
    /\ freshRun = STABLE_FRAMES + 1
    /\ detectResult.type = "PINCH"

\* reset was called on a detector that held a gesture for a whole run
C16_WitnessFromStable ==
    /\ callKind = "reset"
    /\ prevLast # "NONE"
    /\ prevCount >= STABLE_FRAMES

----------------------------------------------------------------------------
(* Claims about the controller and the modes' forces                       *)

C17_NoHandBaselineOnly ==
    /\ (probeForce # null /\ probe.kind # "pair" /\ probe.handPosition = null) =>
          /\ probeForce = ModeBaseline(probe)
          /\ \A g \in ProbeGestures : ModeForce([probe EXCEPT !.gesture = g]) = probeForce
          /\ {probeForce.x, probeForce.y, probeForce.z} \subseteq Int
    /\ landmarks = null => currentGesture = NoneResult /\ handPosition = null

\* a mode was given a gesture without a hand, after the camera lost a hand
\* whose gesture the detector had been following
C17_Witness ==
    /\ probeForce # null
    /\ probe.kind = "galaxy"
    /\ probe.handPosition = null
    /\ probe.gesture.type = "PEACE"
    /\ probeForce # VZero
    /\ callKind = "nohand"
    /\ lastGesture = "PINCH"
    /\ gestureStableCount >= STABLE_FRAMES

Dot(v, w) == v.x * w.x + v.y * w.y + v.z * w.z

\* C19: in FreeMode.update with a hand, the force on a particle is the
\* baseline (boundary spring beyond radius 30, centering pull, drift) plus at
\* most one overlay, which the gesture type alone selects: FULL_OPEN the
\* repulsion of strength 10 from the hand, PINCH the attraction of strength
\* 15 toward it, PEACE the vortex when the particle is farther than 0.1 from
\* the hand, any other type nothing.
C19_OverlayByGestureType ==
    (probeForce # null /\ probe.kind = "free" /\ probe.handPosition # null) =>
        LET hw == HandWorld(probe.handPosition)
            type == probe.gesture.type
            away == Sub(probe.position, hw)
            overlay == Sub(probeForce, FreeBaseline(probe.position, Drift(probe.draw, 0)))
        IN  /\ type = "FULL_OPEN" =>
                  /\ overlay = repulsionForce(probe.position, hw, 10, Rnd(probe.draw, 0))
                  /\ LenSq(away) >= 100 => Dot(overlay, away) >= 0
            /\ type = "PINCH" =>
                  /\ overlay = attractionForce(probe.position, hw, 15)
                  /\ Dot(overlay, away) <= 0
            /\ type = "PEACE" =>
                  overlay = IF LenSq(away) > 100 THEN VortexForce(probe.position, hw)
                            ELSE VZero
            /\ type \notin {"FULL_OPEN", "PINCH", "PEACE"} => overlay = VZero

\* FreeMode's force function was called with a hand and an open hand's
\* gesture for a particle beyond the boundary radius, and pushed it away
C19_Witness ==
    /\ probeForce # null
    /\ probe.kind = "free"
    /\ probe.handPosition # null
    /\ probe.gesture.type = "FULL_OPEN"
    /\ LenSq(probe.position) > BOUNDARY_RADIUS * BOUNDARY_RADIUS
    /\ Sub(probeForce, FreeBaseline(probe.position, Drift(probe.draw, 0))) # VZero

Cross(v, w) ==
    Pt(v.y * w.z - v.z * w.y, v.z * w.x - v.x * w.z, v.x * w.y - v.y * w.x)

MaxAbs(v) == Max(Abs(v.x), Max(Abs(v.y), Abs(v.z)))

\* v and w point in opposite directions: the dot product is negative and the
\* cross product is zero, up to the truncation of each component to the grid
Antiparallel(v, w) ==
    /\ Dot(v, w) < 0
    /\ MaxAbs(Cross(v, w)) <= 2 * (MaxAbs(v) + MaxAbs(w)) + 2

\* C20 as stated: for every position p and target t with p # t and every
\* strength, attractionForce(p, t, s) and repulsionForce(p, t, s) are
\* antiparallel.
C20_AsStated ==
    (probeForce # null /\ probe.kind = "pair" /\ probe.position # probe.center) =>
        Antiparallel(probeForce.attraction, probeForce.repulsion)

\* C20, amended: for every position p at distance 0.1 or more from the target
\* t and every strength s > 0, attractionForce(p, t, s) points from p toward
\* t and repulsionForce(p, t, s) from t toward p, so the two are antiparallel;
\* closer than 0.1 attractionForce is the zero vector.
C20_AntiparallelBeyondEpsilon ==
    (probeForce # null /\ probe.kind = "pair") =>
        LET toTarget == Sub(probe.center, probe.position)
        IN  IF LenSq(toTarget) >= 100
            THEN /\ Antiparallel(probeForce.attraction, probeForce.repulsion)
                 /\ Dot(probeForce.attraction, toTarget) > 0
                 /\ Dot(probeForce.repulsion, toTarget) < 0
            ELSE probeForce.attraction = VZero

\* both functions were called for a particle exactly 0.1 from the target
C20_Witness ==
    /\ probeForce # null
    /\ probe.kind = "pair"
    /\ LenSq(Sub(probe.center, probe.position)) = 100
    /\ probeForce.attraction # VZero
    /\ probeForce.repulsion # VZero

----------------------------------------------------------------------------
(* Degenerate geometry: getFingerCurlAngle and the force helpers, each     *)
(* called on its own                                                       *)

\* getFingerCurlAngle returns 180: a zero-length vector, or cosAngle = -1
CurlAngleIs180(lm, tipIndex) ==
    \/ CurlDegenerate(lm, tipIndex)
    \/ LET d == CurlDot(lm, tipIndex)
       IN  d < 0 /\ d * d = CurlMagSq(lm, tipIndex)

\* joints of one finger: some coincide, some are in line, some at an angle
CurlPoints == { Pt(50, 60, 0), Pt(50, 50, 0), Pt(50, 40, 0), Pt(58, 50, -5) }

\* a call of getFingerCurlAngle(landmarks, 8): the joints 5, 6 and 7
CurlProbes ==
    { [kind |-> "curl", mcp |-> a, pip |-> b, dip |-> c] :
        a \in CurlPoints, b \in CurlPoints, c \in CurlPoints }

CurlLandmarks(pr) == [i \in 5..7 |-> CASE i = 5 -> pr.mcp [] i = 6 -> pr.pip [] i = 7 -> pr.dip]

ProbeCurl ==
    /\ probeForce = null
    /\ probe.kind = "curl"
    /\ probeForce' =
           [is180 |-> CurlAngleIs180(CurlLandmarks(probe), 8),
            above165 |-> CurlAngleAboveExtended(CurlLandmarks(probe), 8),
            below150 |-> CurlAngleBelowCurl(CurlLandmarks(probe), 8)]
    /\ UNCHANGED probe

GeometryInit ==
    /\ SensingInit
    /\ inputFrame = null
    /\ EngineInit(0, 1)
    /\ OpInit
    /\ TickInit
    /\ probe \in PairProbes \cup CurlProbes
    /\ probeForce = null

GeometryNext ==
    \/ ProbePair /\ UNCHANGED <<sensingVars, recordVars, engineVars, appVars, tickVars>>
    \/ ProbeCurl /\ UNCHANGED <<sensingVars, recordVars, engineVars, appVars, tickVars>>

SpecGeometry == GeometryInit /\ [][GeometryNext]_vars

\* C21: degenerate geometry gives a value, never an error or NaN:
\* getFingerCurlAngle returns 180 (above the 165 of "extended", not below the
\* 150 of "curled") whenever MCP = PIP or DIP = PIP; closer than 0.1 to the
\* target attractionForce and orbitalForce return the zero vector and
\* repulsionForce returns the three random draws times strength * 10, not a
\* quotient by the distance.
C21_DegenerateGeometry ==
    /\ (probeForce # null /\ probe.kind = "curl"
          /\ (probe.mcp = probe.pip \/ probe.dip = probe.pip)) =>
          probeForce.is180 /\ probeForce.above165 /\ ~probeForce.below150
    /\ (probeForce # null /\ probe.kind = "pair"
          /\ LenSq(Sub(probe.center, probe.position)) < 100) =>
          LET rnd == Rnd(probe.draw, 0)
          IN  /\ probeForce.attraction = VZero
              /\ probeForce.orbital = VZero
              /\ probeForce.repulsion =
                     Pt(rnd.x * probe.speed * 10, rnd.y * probe.speed * 10,
                        rnd.z * probe.speed * 10)
              /\ probeForce.repulsion # VZero

\* getFingerCurlAngle was called with DIP = PIP and MCP elsewhere
C21_Witness ==
    /\ probeForce # null
    /\ probe.kind = "curl"
    /\ probe.dip = probe.pip
    /\ probe.mcp # probe.pip
    /\ probeForce.is180

\* the three helpers were called for a particle 0.05 from the target
C21_WitnessForces ==
    /\ probeForce # null
    /\ probe.kind = "pair"
    /\ LenSq(Sub(probe.center, probe.position)) = 25
    /\ probeForce.attraction = VZero
    /\ probeForce.repulsion # VZero

----------------------------------------------------------------------------
(* The application from the wait in init() to dispose(): the trackers it   *)
(* constructs, their cameras, the frame callbacks                          *)

\* trackers the application constructs (init() and switchCamera)
MaxTrackers == 2

\* handleHandResults: the place of the hand light, depth 5
HandLightWorld(hp) == Pt((hp.x - 50) * 20, -(hp.y - 50) * 15, 500)

\* handleHandResults({landmarks, gesture, handPosition}), the onResults
\* callback of every tracker of the application
HandleHandResults(hp) ==
    IF hp = null THEN UNCHANGED <<handLight, lightHand>>
    ELSE handLight' = HandLightWorld(hp) /\ lightHand' = hp

\* HandTracker.dispose(): stops the camera if there is one, closes hands
TrackerDisposed(tr) ==
    [tr EXCEPT !.camera = IF @ = "started" THEN "stopped" ELSE @,
               !.hands = "closed", !.disposed = TRUE]

\* what a tracker does is recorded once it has been disposed of
Late(tr, what) == IF tr.disposed THEN [tr EXCEPT !.late = @ \cup {what}] ELSE tr

\* initCamera: getUserMedia resolves; the stream becomes the source of the
\* video element and onloadedmetadata is set, replacing the handler another
\* tracker may have set on the same element, whose wait then never ends
PermissionGranted(t) ==
    /\ trackers[t].phase = "permission"
    /\ trackers' = [u \in DOMAIN trackers |->
                       IF u = t THEN [trackers[u] EXCEPT !.phase = "metadata"]
                       ELSE IF trackers[u].phase = "metadata"
                            THEN [trackers[u] EXCEPT !.phase = "orphaned"]
                            ELSE trackers[u]]
    /\ UNCHANGED <<appPhase, appDisposed, handLight, lightHand>>

\* initCamera: getUserMedia rejects; the catch block reports it
PermissionDenied(t) ==
    /\ trackers[t].phase = "permission"
    /\ trackers' = [trackers EXCEPT ![t].phase = "failed"]
    /\ UNCHANGED <<appPhase, appDisposed, handLight, lightHand>>

\* initCamera: the metadata is loaded; the Camera is made and started
MetadataLoaded(t) ==
    /\ trackers[t].phase = "metadata"
    /\ trackers' = [trackers EXCEPT
                       ![t] = Late([@ EXCEPT !.phase = "running", !.camera = "started"],
                                   "start")]
    /\ UNCHANGED <<appPhase, appDisposed, handLight, lightHand>>

\* the camera of this.handTracker delivers a frame with a hand in it: onFrame
\* sends it to hands, whose results handleResults takes and hands on
CameraFrameHand(lm) ==
    /\ trackers[Len(trackers)].camera = "started"
    /\ trackers[Len(trackers)].hands = "open"
    /\ HandleResultsHand(lm)
    /\ NoteDetect
    /\ HandleHandResults(handPosition')
    /\ UNCHANGED <<appPhase, appDisposed, trackers>>

\* the same with no hand in the frame
CameraFrameNoHand ==
    /\ trackers[Len(trackers)].camera = "started"
    /\ trackers[Len(trackers)].hands = "open"
    /\ HandleResultsNoHand
    /\ UNCHANGED <<lifeVars, tickVars>>

\* the camera of a tracker whose hands are closed delivers a frame: onFrame
\* sends it to hands all the same, and no results come back
CameraFrameClosed(t) ==
    /\ trackers[t].camera = "started"
    /\ trackers[t].hands = "closed"
    /\ "send" \notin trackers[t].late
    /\ trackers' = [trackers EXCEPT ![t] = Late(@, "send")]
    /\ UNCHANGED <<appPhase, appDisposed, handLight, lightHand>>

\* switchCamera(deviceId): dispose of this.handTracker, construct another
SwitchCamera ==
    /\ ~appDisposed
    /\ Len(trackers) < MaxTrackers
    /\ trackers' = Append([trackers EXCEPT ![Len(trackers)] = TrackerDisposed(@)],
                          TrackerNew)
    /\ lastGesture' = "NONE"
    /\ gestureStableCount' = 0
    /\ detectResult' = NoneResult
    /\ currentGesture' = NoneResult
    /\ handPosition' = null
    /\ landmarks' = null
    /\ detectCalled' = FALSE
    /\ UNCHANGED <<appPhase, appDisposed, handLight, lightHand>>

\* animate(currentTime) past its test of isRunning, with a mode that has
\* been disposed of: particleSystem.update runs, gestureController.update
\* calls FreeMode.update, which throws on the marker that is null; nothing
\* after it runs, and the next frame is already requested
RunFrameThrows(currentTime) ==
    LET clampedDelta == ClampedDelta(lastTime, currentTime)
        after == update(ThePs, clampedDelta)
    IN  /\ ticks < MaxTicks
        /\ forceFieldMarker = null
        /\ ticks = 0 \/ pendingFrames > 0
        /\ pendingFrames' = IF ticks = 0 THEN pendingFrames + 1 ELSE pendingFrames
        /\ lastTime' = currentTime
        /\ positions' = after.positions
        /\ velocities' = after.velocities
        /\ ControllerForwards(HandData)
        /\ ticks' = ticks + 1
        /\ tickStart' = [positions |-> positions, velocities |-> velocities]
        /\ tickDelta' = clampedDelta
        /\ tickHand' = HandData
        /\ detectsBeforeUpdate' = detectsPending
        /\ detectsPending' = 0
        /\ UNCHANGED <<originalPositions, colors, forceFieldMarker, controllerLastGesture,
                       rendered, tickDraw, opVars, modesVars, sensingVars, recordVars,
                       probeVars>>

\* time between two frame callbacks, in ms
FrameGaps == {0, 16, 250}

\* init() after its wait: isRunning = true, animate(0)
InitResumes ==
    /\ appPhase = "waiting"
    /\ appPhase' = "started"
    /\ isRunning' = TRUE
    /\ RunFrame(0, "gust") \/ RunFrameThrows(0)
    /\ UNCHANGED <<appDisposed, handLight, lightHand, trackers>>

\* a frame callback of a running application, gap ms after the one before
AnimateCallback(gap) ==
    /\ isRunning
    /\ pendingFrames > 0
    /\ RunFrame(lastTime + gap, "gust") \/ RunFrameThrows(lastTime + gap)
    /\ UNCHANGED <<isRunning, lifeVars>>

\* a frame callback of an application that is not running: animate returns
AnimateStopped ==
    /\ ~isRunning
    /\ pendingFrames > 0
    /\ pendingFrames' = pendingFrames - 1
    /\ UNCHANGED <<isRunning, lastTime, ticks, lifeVars, tickVars, probeVars,
                   sensingVars, recordVars, engineVars>>

\* QuantumParticleLab.dispose(): the loop is told to stop, the tracker, the
\* controller (its FreeMode drops the marker), the particle system and the
\* scene manager are disposed of
AppDispose ==
    /\ ~appDisposed
    /\ appDisposed' = TRUE
    /\ isRunning' = FALSE
    /\ trackers' = [trackers EXCEPT ![Len(trackers)] = TrackerDisposed(@)]
    /\ forceFieldMarker' = null
    /\ UNCHANGED <<appPhase, handLight, lightHand, lastTime, ticks, pendingFrames,
                   tickVars, probeVars, sensingVars, recordVars, particleVars,
                   controllerLastGesture, controllerVars, opVars, modesVars>>

LifeStart ==
    /\ SensingInit
    /\ inputFrame = null
    /\ EngineInit(0, 1)
    /\ OpInit
    /\ isRunning = FALSE
    /\ lastTime = 0
    /\ ticks = 0
    /\ pendingFrames = 0
    /\ LifeInit("waiting", TrackerNew)
    /\ NoFrameYet
    /\ probe = null
    /\ probeForce = null

TrackerStep ==
    \/ \E t \in DOMAIN trackers : PermissionGranted(t)
    \/ \E t \in DOMAIN trackers : PermissionDenied(t)
    \/ \E t \in DOMAIN trackers : MetadataLoaded(t)
    \/ \E t \in DOMAIN trackers : CameraFrameClosed(t)

CameraStep ==
    \/ \E lm \in LoopFrames :
          CameraFrameHand(lm)
              /\ UNCHANGED <<isRunning, lastTime, ticks, pendingFrames, probeVars,
                             recordVars, engineVars>>
    \/ CameraFrameNoHand
         /\ UNCHANGED <<isRunning, lastTime, ticks, pendingFrames, probeVars, recordVars,
                        engineVars>>
    \/ TrackerStep
         /\ UNCHANGED <<isRunning, lastTime, ticks, pendingFrames, tickVars, probeVars,
                        sensingVars, recordVars, engineVars>>

\* the hand lm, moved by d in the image
ShiftHand(lm, d) == [i \in DOMAIN lm |-> Add(lm[i], d)]

\* the pinch of LoopFrames a little higher in the image: in the world it is
\* 0.9 from the particle the pinch of LoopFrames coincides with
NearFrames ==
    { ShiftHand(MakeHand("wide", "touch", <<"straight", "bent", "bent", "bent">>),
                Pt(0, -3, 0)) }

\* the application with the camera it was started with, frames at any pace
AppNext ==
    \/ CameraStep
    \/ \E lm \in NearFrames :
          CameraFrameHand(lm)
              /\ UNCHANGED <<isRunning, lastTime, ticks, pendingFrames, probeVars,
                             recordVars, engineVars>>
    \/ InitResumes
    \/ \E gap \in FrameGaps : AnimateCallback(gap)
    \/ AnimateStopped
    \/ AppDispose

SpecApp == LifeStart /\ [][AppNext]_vars

\* the application with camera switches, frames at a steady pace
CameraNext ==
    \/ CameraStep
    \/ SwitchCamera
         /\ UNCHANGED <<isRunning, lastTime, ticks, pendingFrames, tickVars, probeVars,
                        recordVars, engineVars>>
    \/ InitResumes
    \/ AnimateCallback(16)
    \/ AnimateStopped
    \/ AppDispose

SpecCamera == LifeStart /\ [][CameraNext]_vars

\* the hand a camera switched to shows: a peace sign, up and to the right of
\* the pinch of LoopFrames
SwitchFrames ==
    { ShiftHand(MakeHand("narrow", "folded", <<"straight", "straight", "bent", "bent">>),
                Pt(12, -9, 0)) }

\* the hand in front of the camera of the n-th tracker
CameraFrames(n) == IF n = 1 THEN LoopFrames ELSE SwitchFrames

\* a running application whose camera is switched: the first camera shows
\* one hand, the later ones another
SwitchNext ==
    \/ \E lm \in CameraFrames(Len(trackers)) :
          CameraFrameHand(lm)
              /\ UNCHANGED <<isRunning, lastTime, ticks, pendingFrames, probeVars,
                             recordVars, engineVars>>
    \/ CameraFrameNoHand
         /\ UNCHANGED <<isRunning, lastTime, ticks, pendingFrames, probeVars, recordVars,
                        engineVars>>
    \/ \E t \in DOMAIN trackers :
          (PermissionGranted(t) \/ MetadataLoaded(t))
              /\ UNCHANGED <<isRunning, lastTime, ticks, pendingFrames, tickVars, probeVars,
                             sensingVars, recordVars, engineVars>>
    \/ SwitchCamera
         /\ UNCHANGED <<isRunning, lastTime, ticks, pendingFrames, tickVars, probeVars,
                        recordVars, engineVars>>
    \/ InitResumes
    \/ AnimateCallback(16)

SpecSwitch == LifeStart /\ [][SwitchNext]_vars

----------------------------------------------------------------------------
(* Claims about the place of the hand in the world                         *)

\* ((x - 0.5) * 2 * 20, -(y - 0.5) * 2 * 15, 5) for a normalized (x, y)
ScaledAtDepthFive(hp) == Pt((hp.x - 50) * 2 * 20, -(hp.y - 50) * 2 * 15, 500)

\* C22 as stated: every world-space place the program derives from a
\* normalized hand position (x, y), the marker's (which is the one the forces
\* use) and the hand light's, is ((x - 0.5) * 2 * 20, -(y - 0.5) * 2 * 15, 5).
C22_AsStated ==
    /\ (forceFieldMarker # null /\ forceFieldMarker.visible) =>
          forceFieldMarker.position = ScaledAtDepthFive(tickHand.handPosition)
    /\ lightHand # null => handLight = ScaledAtDepthFive(lightHand)

\* what the code computes: the modes call screenToWorld(x, y, 0), so the
\* marker and the forces are at depth 0 with scales 2 * 20 and 2 * 15; the
\* hand light is at depth 5 with scales 20 and 15, half as far from the axis
C22_MarkerAtDepthZeroLightAtHalfScale ==
    /\ (forceFieldMarker # null /\ forceFieldMarker.visible) =>
          /\ forceFieldMarker.position =
                 screenToWorld(tickHand.handPosition.x, tickHand.handPosition.y, 0)
          /\ forceFieldMarker.position.z = 0
    /\ lightHand # null =>
          /\ 2 * handLight.x = ScaledAtDepthFive(lightHand).x
          /\ 2 * handLight.y = ScaledAtDepthFive(lightHand).y
          /\ handLight.z = 500

\* a frame has put the marker at a hand the light was moved for as well
C22_Witness ==
    /\ forceFieldMarker # null
    /\ forceFieldMarker.visible
    /\ lightHand = tickHand.handPosition
    /\ handLight # forceFieldMarker.position

----------------------------------------------------------------------------
(* Claims about the overlays of AtomMode and GalaxyMode                    *)

\* C23 as stated: in AtomMode.update with a hand and gesture FULL_OPEN the
\* force on every particle is the radial spring, the orbital tangent and the
\* drift plus a repulsion of strength 8 away from the hand's place.
C23_AsStated ==
    (probeForce # null /\ probe.kind = "atom" /\ probe.handPosition # null
       /\ probe.gesture.type = "FULL_OPEN") =>
        probeForce =
            Add(ModeBaseline(probe),
                repulsionForce(probe.position, HandWorld(probe.handPosition), 8,
                               Rnd(probe.draw, 0)))

\* AtomMode's force function was called with a hand and FULL_OPEN for a
\* particle 6 from the hand, and returned the baseline alone
C23_Witness ==
    /\ probeForce # null
    /\ probe.kind = "atom"
    /\ probe.handPosition # null
    /\ probe.gesture.type = "FULL_OPEN"
    /\ probe.position = VZero
    /\ probeForce = ModeBaseline(probe)
    /\ repulsionForce(probe.position, HandWorld(probe.handPosition), 8,
                      Rnd(probe.draw, 0)) # VZero

\* the part of a GalaxyMode force along the tangent: what is left of it
\* without the spring, the flattening and the drift (for a call in which
\* neither the repulsion nor the attraction is added)
GalaxyTangential(pr, force) ==
    Sub(force, GalaxyBaseline(pr.position, pr.radius, pr.center, 0, Drift(pr.draw, 0)))

\* a call of GalaxyMode's force function that adds no repulsion or attraction
GalaxyTurning(pr) ==
    /\ pr.kind = "galaxy"
    /\ pr.handPosition = null \/ pr.gesture.type \notin {"THUMB_UP", "PINCH"}

\* C24 as stated: with rotationSpeed at its base rate 0.5 the tangential
\* force is the unit tangent times 0.5 when the gesture is not PEACE and
\* times 1.0, twice that, with a hand and PEACE.
C24_AsStated ==
    (probeForce # null /\ GalaxyTurning(probe) /\ probe.speed = 50) =>
        LET toCenter == Sub(probe.center, probe.position)
        IN  GalaxyTangential(probe, probeForce) =
                IF probe.handPosition # null /\ probe.gesture.type = "PEACE"
                THEN GalaxyTangent(toCenter, 100)
                ELSE GalaxyTangent(toCenter, 50)

\* C24, amended: the tangential force is the unit tangent times rotationSpeed
\* (0.5 unless THUMB_UP has set it to 1.5) and, with a hand and PEACE, a
\* second one times 2 * rotationSpeed on top of it: three times the rate in
\* all, 1.5 at the base rate, not 1.0.
C24_PeaceTriplesTangent ==
    (probeForce # null /\ GalaxyTurning(probe)) =>
        LET toCenter == Sub(probe.center, probe.position)
            tangential == GalaxyTangential(probe, probeForce)
            turning == toCenter.x # 0 \/ toCenter.y # 0
        IN  IF probe.handPosition # null /\ probe.gesture.type = "PEACE"
            THEN /\ tangential = Add(GalaxyTangent(toCenter, probe.speed),
                                     GalaxyTangent(toCenter, 2 * probe.speed))
                 /\ LenSq(tangential) <= (3 * probe.speed) * (3 * probe.speed)
                 /\ turning =>
                       LenSq(tangential) >= (3 * probe.speed - 4) * (3 * probe.speed - 4)
            ELSE /\ tangential = GalaxyTangent(toCenter, probe.speed)
                 /\ LenSq(tangential) <= probe.speed * probe.speed
                 /\ turning => LenSq(tangential) >= (probe.speed - 2) * (probe.speed - 2)

\* GalaxyMode's force function was called with a hand and PEACE at the base
\* rate for a particle off the axis, and turned it with more than 1.4
C24_Witness ==
    /\ probeForce # null
    /\ probe.kind = "galaxy"
    /\ probe.handPosition # null
    /\ probe.gesture.type = "PEACE"
    /\ probe.speed = 50
    /\ LenSq(GalaxyTangential(probe, probeForce)) > 140 * 140

----------------------------------------------------------------------------
(* Claims about the state AtomMode keeps                                   *)

\* AtomMode.update is called with a hand and PINCH
AtomPinched ==
    \E handData \in ModeInputs :
        /\ handData.handPosition # null
        /\ handData.gesture.type = "PINCH"
        /\ AtomUpdate(handData, "gust")

\* C25: AtomMode's nucleus position changes only in an update with a hand and
\* PINCH, which sets it to the hand's place in the world; every other update,
\* and every other operation, leaves it where it was; and the orbit level of
\* each particle, one of the radii 2, 4, 6, is assigned by init and never
\* changed by update.
C25_NucleusMovesOnPinchOnly ==
    [][/\ AtomPinched =>
             \E handData \in ModeInputs :
                 /\ handData.handPosition # null
                 /\ atomMode'.nucleusPosition = HandWorld(handData.handPosition)
       /\ ~AtomPinched => atomMode'.nucleusPosition = atomMode.nucleusPosition
       /\ (\E handData \in ModeInputs : AtomUpdate(handData, "gust")) =>
             /\ atomMode'.particleOrbits = atomMode.particleOrbits
             /\ \A i \in Particles :
                    orbitalLevels[atomMode.particleOrbits[i] + 1] \in {200, 400, 600}
       /\ atomMode'.particleOrbits # atomMode.particleOrbits => AtomInit(1)]_vars

\* the nucleus is at the hand's place after an update without a hand: the
\* forces of the latest operation are AtomMode's for no hand, and not those
\* a PINCH there would have given
C25_Witness ==
    /\ atomMode.nucleusPosition = HandWorld(Pt(50, 70, 0))
    /\ DOMAIN atomMode.particleOrbits = Particles
    /\ lastOp = "modeUpdate"
    /\ lastForces =
           [i \in Particles |->
               AtomForce(positions[i], orbitalLevels[atomMode.particleOrbits[i] + 1],
                         atomMode.nucleusPosition, null, NoneResult, Drift("gust", i),
                         Rnd("gust", i))]
    /\ lastForces #
           [i \in Particles |->
               AtomForce(positions[i], orbitalLevels[atomMode.particleOrbits[i] + 1],
                         atomMode.nucleusPosition, HandWorld(Pt(50, 70, 0)),
                         [type |-> "PINCH", confidence |-> 90], Drift("gust", i),
                         Rnd("gust", i))]

----------------------------------------------------------------------------
(* One particle of FreeMode with no hand, frame after frame, whatever      *)
(* randomDrift draws                                                       *)

\* one frame for one particle with handPosition null: ParticleSystem.update
\* moves and damps it, FreeMode.update's force is added and the speed limited
DriftFrame(p, deltaTime, drift) ==
    LET moved == Add(p.position, Displacement(p.velocity, deltaTime))
        damped == applyFriction(p.velocity, FRICTION)
        force == FreeForce(moved, null, NoneResult, drift, VZero)
    IN  [p EXCEPT !.position = moved,
                  !.velocity = limitSpeed(Add(damped, force), MAX_SPEED)]

\* the lines a particle is followed on: an axis and the diagonal
DriftLines == { Pt(1, 0, 0), Pt(1, 1, 1) }

\* where randomize() may put a particle of a line: the origin, or just inside
\* radius 10
DriftStarts(line) ==
    { VZero, IF line = Pt(1, 0, 0) THEN Pt(999, 0, 0) ELSE Pt(577, 577, 577) }

\* the extreme draws of randomDrift(0.08) along a line: each component that
\* is drawn is -0.04 or 0.04
DriftDraws(line) == { ScaleDiv(line, 4, 1), ScaleDiv(line, -4, 1) }

DriftInit ==
    /\ SensingInit
    /\ inputFrame = null
    /\ EngineInit(0, 1)
    /\ OpInit
    /\ TickInit
    /\ \E line \in DriftLines : \E p \in DriftStarts(line) :
          probe = [kind |-> "drifting", line |-> line, position |-> p, velocity |-> VZero]
    /\ probeForce = null

DriftTick ==
    /\ \E deltaTime \in DeltaTimes, drift \in DriftDraws(probe.line) :
          probe' = DriftFrame(probe, deltaTime, drift)
    /\ UNCHANGED <<probeForce, sensingVars, recordVars, engineVars, appVars, tickVars>>

SpecDrift == DriftInit /\ [][DriftTick]_vars

\* C26: with handPosition null on every frame, starting from FreeMode.init,
\* after every frame (integrate plus FreeMode.update, deltaTime 0 or 0.1) the
\* particle is no farther than 31 from the origin, whatever the drift draws:
\* after 500 frames as after any other number.
C26_StaysWithinBoundary ==
    probe.kind = "drifting" => LenSq(probe.position) <= 3100 * 3100


\* a particle that the drift has carried outside the sphere of radius 10 it
\* started in, and that is still moving
C26_Witness ==
    /\ probe.kind = "drifting"
    /\ LenSq(probe.position) > 1300 * 1300
    /\ probe.velocity # VZero


----------------------------------------------------------------------------
(* Claims about a tracker that has been disposed of                        *)

\* C27 as stated: a tracker that has been disposed of never afterwards starts
\* a camera, sends a frame to hands or calls onResults, also when it was
\* disposed of while waiting for the permission or for the metadata.
C27_AsStated == \A t \in DOMAIN trackers : trackers[t].late = {}

\* a tracker disposed of during its wait has started its camera since, and a
\* frame of that camera has been sent to the hands it had closed
C27_Witness ==
    \E t \in DOMAIN trackers :
        /\ trackers[t].disposed
        /\ trackers[t].camera = "started"
        /\ trackers[t].late = {"start", "send"}


----------------------------------------------------------------------------
(* Claims about the frame loop and dispose()                               *)

\* C28 as stated: after QuantumParticleLab.dispose() no further
\* ParticleSystem.update, GestureController.update or render runs and the
\* mode that was disposed of is never updated; while the loop runs, exactly
\* one frame callback is pending after each tick.
C28_AsStated ==
    [][/\ appDisposed =>
             /\ ticks' = ticks
             /\ positions' = positions
             /\ controllerForwards' = controllerForwards
             /\ rendered' = rendered
       /\ (isRunning' /\ ticks' > ticks) => pendingFrames' = 1]_vars

\* what the code does keep: once init() has started the loop, dispose() ends
\* it, the callback that was pending returns and none follows; and a running
\* loop has one callback pending after each tick
C28_StopsOnceStarted ==
    [][/\ (appDisposed /\ appPhase = "started" /\ ~isRunning) =>
             /\ ticks' = ticks
             /\ positions' = positions
             /\ controllerForwards' = controllerForwards
             /\ rendered' = rendered
             /\ pendingFrames' <= pendingFrames
       /\ (isRunning' /\ ticks' > ticks) => pendingFrames' = 1]_vars

\* dispose() came during the wait of init(): the loop runs all the same, the
\* particle system has been updated twice since, the controller called twice
\* with the mode whose marker is null, and a further frame is pending
C28_Witness ==
    /\ appDisposed
    /\ isRunning
    /\ forceFieldMarker = null
    /\ ticks >= 2
    /\ controllerForwards >= 2
    /\ rendered = null
    /\ pendingFrames = 1


----------------------------------------------------------------------------
(* Claims about what a frame reads from the tracker                        *)

\* the three values of one handleResults call: no hand, no position and the
\* gesture NONE, or a hand, its palm centre and what detect made of it
FromOneResult(h) ==
    /\ (h.landmarks = null) <=> (h.handPosition = null)
    /\ h.landmarks = null => h.gesture = NoneResult
    /\ h.landmarks # null =>
          /\ h.handPosition = getPalmCenter(h.landmarks)
          /\ h.gesture \in {NoneResult, RawGesture(h.landmarks)}

\* C29: landmarks, handPosition and currentGesture of the tracker always
\* come from one handleResults call, and so does the handData of every frame,
\* also after a camera switch: handPosition is null exactly when landmarks is
\* null, the gesture is then {NONE, 0}, and with a hand the position is that
\* hand's palm centre and the gesture NONE or that hand's gesture.
C29_OneResultPerTick ==
    /\ FromOneResult(HandData)
    /\ landmarks # null => currentGesture = detectResult
    /\ ticks > 0 => FromOneResult(tickHand)

\* a frame after a camera switch that read the peace sign of the second
\* camera
C29_Witness ==
    /\ Len(trackers) = 2
    /\ ticks >= 2
    /\ tickHand.landmarks \in SwitchFrames
    /\ tickHand.gesture.type = "PEACE"
    /\ tickHand.handPosition # null


----------------------------------------------------------------------------
(* Claims about the time step of a frame                                   *)

\* C30: with timestamps that never go back, the deltaTime a frame hands to
\* ParticleSystem.update and GestureController.update is between 0 and 0.1 s,
\* and 0 on the first frame and whenever lastTime was 0; no particle moves
\* more than 5.0 * 0.1 * 2.0 = 1.0 in one frame.
C30_StepBounded ==
    [][ticks' > ticks =>
          /\ tickDelta' \in 0..MAX_DELTA
          /\ (ticks = 0 \/ lastTime = 0) => tickDelta' = 0
          /\ lastTime' >= lastTime
          /\ \A i \in Particles :
                /\ LenSq(velocities[i]) <= MAX_SPEED * MAX_SPEED
                /\ LenSq(Sub(positions'[i], positions[i])) <= 100 * 100]_vars

\* a frame that came 250 ms after the one before was given 0.1 s, and a
\* particle at the speed limit moved by 0.99 or more in it
C30_Witness ==
    /\ ticks >= 3
    /\ tickDelta = MAX_DELTA
    /\ \E i \in Particles :
          /\ LenSq(tickStart.velocities[i]) > 490 * 490
          /\ LenSq(Sub(positions[i], tickStart.positions[i])) >= 99 * 99

=============================================================================
